---- MODULE Spec2Model ----
(***************************************************************************)
(* Model of the full-sync Cloud Function                                   *)
(* (src/cloud-functions/full-sync/main.py): the site synchronisation job   *)
(* full_sync_site, its enrichment tasks (process_woo_product), the batch    *)
(* merger/writer (batch_update_products) and the progress row that doubles  *)
(* as the cancellation oracle (update_progress / check_if_cancelled).       *)
(*                                                                         *)
(* Encoding of Python values:                                               *)
(*   - a dict is a function whose DOMAIN is its key set; a key that is      *)
(*     absent from the dict is absent from the DOMAIN;                      *)
(*   - JSON null in a dict-typed column is the record Null;                 *)
(*   - a float parsed from a price string is kept in hundredths;            *)
(*   - an optional integer inside a variation is a sequence of length <= 1; *)
(*   - SKUs are strings, "" is the empty SKU.  The upstream shop keeps      *)
(*     non-empty SKUs unique within one site, so catalogs have distinct     *)
(*     non-empty SKUs.                                                      *)
(***************************************************************************)
EXTENDS Integers, Sequences, FiniteSets, TLC

\* ------------------------------------------------------------------ bounds
\* number of hand-written items a small catalog may hold
MaxItems == 2
\* the largest pool full_sync_site is called with (the default is 10)
MaxWorkers == 2
\* calls of full_sync_site in one behaviour
MaxRuns == 2
\* upstream and datastore calls that may fail in one behaviour
MaxFaults == 1
\* pages the shop may need to list its catalog
\* the attributes of the item whose remapping is checked
MaxAttrs == 2

MaxPages == 3

\* ------------------------------------------------------- program constants
BATCH_SIZE == 300
POLL_EVERY == 50
DEFAULT_STOCK == 100
\* _request_with_retry(self, url, max_retries=3)
max_retries == 3
\* full_sync_site(supabase, site, max_workers=10)
max_workers_default == 10
\* get_products_page(page=page, per_page=100) and the test len(products) < 100
per_page == 100

SITES == {"com", "uk", "de", "fr"}
PRIMARY == "com"

\* ------------------------------------------------------------ Python values
Null == [null |-> TRUE]
NoneResult == [result |-> "None"]

Get(d, k, default) == IF k \in DOMAIN d THEN d[k] ELSE default

\* isinstance(val, dict): a per-site map has site codes as keys
IsDict(val) == DOMAIN val \subseteq SITES

\* {**a, **b}
DictMerge(a, b) ==
  [k \in DOMAIN a \cup DOMAIN b |-> IF k \in DOMAIN b THEN b[k] ELSE a[k]]

\* truthiness of a string-or-None value read with .get(k)
Truthy(v) == v # "None" /\ v # ""

\* float(s) for the price strings of the sample catalogs, in hundredths
CanFloat(s) == s \in {"0", "9", "12.50"}
Float(s) == CASE s = "9" -> 900
              [] s = "12.50" -> 1250
              [] OTHER -> 0

\* (name or '').lower().replace(' ', '') for the sample attribute names
Normalise(name) ==
  CASE name = "Gender Age" -> "genderage"
    [] name = "Gender" -> "gender"
    [] name = "Season" -> "season"
    [] name = "Jersey Type" -> "jerseytype"
    [] name = "Type" -> "type"
    [] name = "Style" -> "style"
    [] name = "Version" -> "version"
    [] name = "Sleeve Length" -> "sleevelength"
    [] name = "Sleeve" -> "sleeve"
    [] name = "Team" -> "team"
    [] name = "Event" -> "event"
    [] name = "Events" -> "events"
    [] name = "Color" -> "color"
    [] name = "None" -> ""
    [] OTHER -> name

\* ------------------------------------------------------ process_woo_product
\* the synonym table of the attribute remapping; "" means "not in the table"
AttrKeyExact(attr_name) ==
  IF attr_name \in {"gender", "season", "type", "version", "sleeve", "team", "events"}
  THEN attr_name ELSE ""
AttrKey(attr_name) ==
  CASE attr_name \in {"genderage", "gender"} -> "gender"
    [] attr_name = "season" -> "season"
    [] attr_name \in {"jerseytype", "type"} -> "type"
    [] attr_name \in {"style", "version"} -> "version"
    [] attr_name \in {"sleevelength", "sleeve"} -> "sleeve"
    [] attr_name = "team" -> "team"
    [] attr_name \in {"event", "events"} -> "events"
    [] OTHER -> ""

\* value = (attr.get('options') or [''])[0] if attr.get('options') else ''
FirstOption(attr) ==
  LET options == Get(attr, "options", <<>>)
  IN IF Len(options) > 0 THEN options[1] ELSE ""

\* one pass of the loop over woo_product['attributes']
AttrStep(attributes, attr) ==
  LET attr_name == Normalise(Get(attr, "name", ""))
      key == AttrKey(attr_name)
  IN IF key = "" THEN attributes
     ELSE IF key = "events"
          THEN DictMerge(attributes, [events |-> Get(attr, "options", <<>>)])
          ELSE DictMerge(attributes, (key :> FirstOption(attr)))

RECURSIVE RemapAttributes(_, _)
RemapAttributes(attrs, attributes) ==
  IF attrs = <<>> THEN attributes
  ELSE RemapAttributes(Tail(attrs), AttrStep(attributes, Head(attrs)))

\* sale_price or price or 0, as the string handed to float()
PriceSource(a, b) == IF Truthy(a) THEN a ELSE IF Truthy(b) THEN b ELSE "0"

SalePriceSource(woo_product) ==
  PriceSource(Get(woo_product, "sale_price", "None"), Get(woo_product, "price", "None"))
RegularPriceSource(woo_product) ==
  PriceSource(Get(woo_product, "regular_price", "None"), Get(woo_product, "price", "None"))

\* woo_product.get('stock_quantity') or 100 (a null quantity is an absent key)
StockQuantityNoDefault(woo_product) == Get(woo_product, "stock_quantity", 0)
StockQuantity(woo_product) ==
  IF Get(woo_product, "stock_quantity", 0) # 0
  THEN woo_product["stock_quantity"] ELSE DEFAULT_STOCK

\* the fields extracted for every site (lines 394-411)
BaseUpdate(woo_product, s, now) ==
  [sku |-> woo_product["sku"],
   prices |-> (s :> Float(SalePriceSource(woo_product))),
   regular_prices |-> (s :> Float(RegularPriceSource(woo_product))),
   stock_quantities |-> (s :> StockQuantity(woo_product)),
   stock_statuses |-> (s :> Get(woo_product, "stock_status", "instock")),
   statuses |-> (s :> Get(woo_product, "status", "publish")),
   content |-> (s :> [name |-> Get(woo_product, "name", ""),
                      description |-> Get(woo_product, "description", ""),
                      short_description |-> Get(woo_product, "short_description", "")]),
   sync_status |-> (s :> "synced"),
   last_synced_at |-> now,
   woo_ids |-> (s :> woo_product["id"])]

\* [img['src'] for img in images], [c['name'] for c in categories]
Images(images) == [i \in 1..Len(images) |-> images[i]["src"]]
Categories(categories) == [i \in 1..Len(categories) |-> categories[i]["name"]]

\* the shared fields, written for the primary site only (lines 413-441)
CanonicalUpdateAnySite(woo_product, s) ==
  [name |-> Get(woo_product, "name", "")]
CanonicalUpdate(woo_product, s) ==
  IF s = PRIMARY
  THEN LET attributes == RemapAttributes(Get(woo_product, "attributes", <<>>), <<>>)
           shared == [name |-> Get(woo_product, "name", ""),
                      images |-> Images(Get(woo_product, "images", <<>>)),
                      categories |-> Categories(Get(woo_product, "categories", <<>>))]
       IN IF DOMAIN attributes # {}
          THEN DictMerge(shared, [attributes |-> attributes])
          ELSE shared
  ELSE <<>>

NeedsVariations(woo_product) == Get(woo_product, "type", "None") = "variable"

VariationRecord(v) ==
  [id |-> v["id"],
   sku |-> Get(v, "sku", ""),
   attributes |-> Get(v, "attributes", <<>>),
   regular_price |-> Get(v, "regular_price", ""),
   sale_price |-> Get(v, "sale_price", ""),
   stock_quantity |-> Get(v, "stock_quantity", <<>>),
   stock_status |-> Get(v, "stock_status", "instock")]

\* the variation list of lines 443-461: fetch is the outcome of
\* client.get_product_variations, [ok |-> TRUE, body |-> list] or [ok |-> FALSE];
\* a failed fetch, or a variation without 'id', leaves the list empty
SiteVariations(woo_product, fetch) ==
  IF NeedsVariations(woo_product) /\ fetch.ok
     /\ \A i \in 1..Len(fetch.body) : "id" \in DOMAIN fetch.body[i]
  THEN [i \in 1..Len(fetch.body) |-> VariationRecord(fetch.body[i])]
  ELSE <<>>

VariationFieldsStaleCount(s, site_variations) ==
  [variations |-> (s :> site_variations), variation_counts |-> (s :> 0)]
VariationFields(s, site_variations) ==
  [variations |-> (s :> site_variations),
   variation_counts |-> (s :> Len(site_variations))]

\* float() raises on a malformed price
ExtractionRaisesNever(woo_product) == FALSE
ExtractionRaises(woo_product) ==
  \/ ~CanFloat(SalePriceSource(woo_product))
  \/ ~CanFloat(RegularPriceSource(woo_product))

\* lines 385-390: an item without SKU is skipped
SkuMissingNever(woo_product) == FALSE
SkuMissing(woo_product) == ~Truthy(Get(woo_product, "sku", ""))

\* process_woo_product without the try/except of lines 446-461 around the
\* variations request: its failure reaches the except of line 468
process_woo_productFetchFatal(woo_product, s, now, fetch) ==
  LET sku == Get(woo_product, "sku", "")
  IN IF SkuMissing(woo_product) THEN NoneResult
     ELSE IF ExtractionRaises(woo_product)
             \/ (NeedsVariations(woo_product) /\ ~fetch.ok)
          THEN [sku |-> sku, success |-> FALSE, error |-> "ValueError"]
          ELSE [sku |-> sku, success |-> TRUE,
                data |-> DictMerge(DictMerge(BaseUpdate(woo_product, s, now),
                                             CanonicalUpdate(woo_product, s)),
                                   VariationFields(s, SiteVariations(woo_product, fetch)))]

\* process_woo_product after the flag check (lines 385-470)
process_woo_product(woo_product, s, now, fetch) ==
  LET sku == Get(woo_product, "sku", "")
  IN IF SkuMissing(woo_product) THEN NoneResult
     ELSE IF ExtractionRaises(woo_product)
          THEN [sku |-> sku, success |-> FALSE, error |-> "ValueError"]
          ELSE [sku |-> sku, success |-> TRUE,
                data |-> DictMerge(DictMerge(BaseUpdate(woo_product, s, now),
                                             CanonicalUpdate(woo_product, s)),
                                   VariationFields(s, SiteVariations(woo_product, fetch)))]

\* the fields fetch_product_from_woo extracts for every site (lines 146-162):
\* those of process_woo_product with the caller's sku and without woo_ids
PulledUpdate(sku, woo_product, s, now) ==
  [sku |-> sku,
   prices |-> (s :> Float(SalePriceSource(woo_product))),
   regular_prices |-> (s :> Float(RegularPriceSource(woo_product))),
   stock_quantities |-> (s :> StockQuantity(woo_product)),
   stock_statuses |-> (s :> Get(woo_product, "stock_status", "instock")),
   statuses |-> (s :> Get(woo_product, "status", "publish")),
   content |-> (s :> [name |-> Get(woo_product, "name", ""),
                      description |-> Get(woo_product, "description", ""),
                      short_description |-> Get(woo_product, "short_description", "")]),
   sync_status |-> (s :> "synced"),
   last_synced_at |-> now]

\* fetch_product_from_woo(sku, woo_id, site) (lines 135-221): got is the
\* outcome of client.get_product(woo_id), [ok |-> TRUE, body |-> product] or
\* [ok |-> FALSE], and fetch that of client.get_product_variations(woo_id);
\* a failed get_product and a malformed price end in the except of line 219
fetch_product_from_woo(sku, s, now, got, fetch) ==
  IF ~got.ok \/ ExtractionRaises(got.body)
  THEN [sku |-> sku, success |-> FALSE, error |-> "Exception"]
  ELSE [sku |-> sku, success |-> TRUE,
        data |-> DictMerge(DictMerge(PulledUpdate(sku, got.body, s, now),
                                     CanonicalUpdate(got.body, s)),
                           VariationFields(s, SiteVariations(got.body, fetch)))]

\* ---------------------------------------------------- batch_update_products
PerSiteFields == {"prices", "regular_prices", "stock_quantities", "stock_statuses",
                  "statuses", "content", "sync_status", "variations",
                  "variation_counts"}
CanonicalFields == {"name", "images", "categories", "attributes"}

\* safe_dict(val) (lines 239-240); an absent column reads as None
safe_dictTrusting(val) == val
safe_dict(val) == IF IsDict(val) THEN val ELSE <<>>

\* {**safe_dict(existing.get(f)), **update.get(f, {})}
MergeFieldReplacing(existing, update, f) == Get(update, f, <<>>)
MergeFieldAppending(existing, update, f) ==
  LET old == safe_dict(Get(existing, f, Null))
      new == Get(update, f, <<>>)
  IN IF f = "variations"
     THEN DictMerge(old, [k \in DOMAIN new |->
                            IF k \in DOMAIN old THEN old[k] \o new[k] ELSE new[k]])
     ELSE DictMerge(old, new)
MergeField(existing, update, f) ==
  DictMerge(safe_dict(Get(existing, f, Null)), Get(update, f, <<>>))

\* the merged record of one update (lines 248-270)
Merged(existing, update) ==
  [k \in {"sku", "last_synced_at"} \cup PerSiteFields
         \cup (CanonicalFields \cap DOMAIN update) |->
     IF k = "sku" THEN update["sku"]
     ELSE IF k = "last_synced_at" THEN Get(update, "last_synced_at", "None")
     ELSE IF k \in PerSiteFields THEN MergeField(existing, update, k)
     ELSE update[k]]

\* line 232: the SKUs of the updates
SkusOf(updates) == {updates[i]["sku"] : i \in DOMAIN updates}

\* the bulk upsert keyed by sku (line 275), the rows of the payload applied
\* in list order: the columns of a row are written, those of a later row of
\* the same key over those of an earlier one, and the other columns of an
\* existing row are kept
UpsertRows(st, rows) ==
  [k \in DOMAIN st \cup SkusOf(rows) |->
     LET at == {i \in DOMAIN rows : rows[i]["sku"] = k}
         old == Get(st, k, <<>>)
         LastWith(c) == CHOOSE i \in at :
                          /\ c \in DOMAIN rows[i]
                          /\ \A j \in at : c \in DOMAIN rows[j] => j <= i
     IN IF at = {} THEN st[k]
        ELSE [c \in DOMAIN old \cup UNION {DOMAIN rows[i] : i \in at} |->
                IF \E i \in at : c \in DOMAIN rows[i]
                THEN rows[LastWith(c)][c]
                ELSE old[c]]]

\* the columns the select of lines 233-235 names
SelectedColumns == {"sku"} \cup PerSiteFields

\* lines 232-237: the rows of the SKUs of the batch as the bulk read finds
\* them, keyed by sku; a row read has the selected columns and no other, a
\* column without a value reads as null
existing_map_of(st, updates) ==
  [k \in DOMAIN st \cap SkusOf(updates) |->
     [c \in SelectedColumns |-> Get(st[k], c, Null)]]

\* lines 243-272: one merged record per update, in the order of the updates,
\* each merged against the row read for its SKU
final_updates(existing, updates) ==
  [i \in DOMAIN updates |->
     Merged(Get(existing, updates[i]["sku"], <<>>), updates[i])]

\* lines 243-275: the merged records are built once (lines 243-272) and
\* written in one bulk upsert (line 275) into the table as it is by then
final_updates_upserted(st, existing, updates) ==
  CHOOSE after \in {UpsertRows(st, merged) :
                      merged \in {final_updates(existing, updates)}} : TRUE

\* batch_update_products: nothing for no updates (line 226); else bulk read,
\* merge, bulk upsert; the new table
batch_update_products(st, updates) ==
  IF updates = <<>> THEN st
  ELSE final_updates_upserted(st, existing_map_of(st, updates), updates)

\* ------------------------------------------------------------ sample data
ItemA ==
  [id |-> 11, sku |-> "A", name |-> "Home Shirt", description |-> "long",
   short_description |-> "short", price |-> "9", regular_price |-> "12.50",
   sale_price |-> "9", stock_quantity |-> 5, stock_status |-> "outofstock",
   status |-> "draft", type |-> "simple",
   images |-> <<[src |-> "a.jpg"]>>, categories |-> <<[name |-> "Retro"]>>,
   attributes |-> <<[name |-> "Gender Age", options |-> <<"Men", "Kids">>],
                    [name |-> "Events", options |-> <<"WC", "Euro">>],
                    [name |-> "Color", options |-> <<"Red">>]>>]

\* a variable product with no stock fields, stock 0 and no known attribute
ItemB ==
  [id |-> 12, sku |-> "B", name |-> "Away Shirt", price |-> "12.50",
   regular_price |-> "", sale_price |-> "", stock_quantity |-> 0,
   type |-> "variable",
   attributes |-> <<[name |-> "Color", options |-> <<"Blue">>]>>]

\* a variable product without SKU
ItemNoSku == [id |-> 13, sku |-> "", name |-> "Draft", price |-> "9", type |-> "variable"]

\* a malformed numeric price
ItemBad == [id |-> 14, sku |-> "C", name |-> "Broken", price |-> "abc", type |-> "simple"]

Plain(i) == [id |-> 100 + i, sku |-> ToString(i), name |-> "Plain", price |-> "9",
             type |-> "simple"]

\* what the shop answers to GET /products/<id>/variations
UpstreamVariations(woo_id) ==
  IF woo_id = 12
  THEN <<[id |-> 121, sku |-> "B-S", regular_price |-> "12.50", stock_quantity |-> <<3>>],
         [id |-> 122]>>
  ELSE <<>>

ItemPool == {ItemA, ItemB, ItemNoSku, ItemBad}

\* what the shop answers to GET /products/<id>: the product, or no product
UpstreamProduct(woo_id) ==
  IF \E item \in ItemPool : item["id"] = woo_id
  THEN [ok |-> TRUE, body |-> CHOOSE item \in ItemPool : item["id"] = woo_id]
  ELSE [ok |-> FALSE]

RECURSIVE SeqsOver(_, _)
\* the sequences of at most n different members of pool
SeqsOver(pool, n) ==
  IF n = 0 THEN {<<>>}
  ELSE {<<>>} \cup UNION {{<<x>> \o t : t \in SeqsOver(pool \ {x}, n - 1)} : x \in pool}

SmallCatalogs == SeqsOver(ItemPool, MaxItems)

\* count plain items followed by tail
Bulk(count, tail) == [i \in 1..count |-> Plain(i)] \o tail

\* a row that other jobs left behind for sku, with entries for the given sites
SeedMap(sites, v) == [x \in sites |-> v]
SeedRow(sku, sites) ==
  [sku |-> sku,
   prices |-> SeedMap(sites, 7700),
   regular_prices |-> SeedMap(sites, 8800),
   stock_quantities |-> SeedMap(sites, 1),
   stock_statuses |-> SeedMap(sites, "onbackorder"),
   statuses |-> SeedMap(sites, "private"),
   content |-> SeedMap(sites, [name |-> "Alt", description |-> "alt",
                               short_description |-> "a"]),
   sync_status |-> SeedMap(sites, "error"),
   variations |-> SeedMap(sites, <<VariationRecord([id |-> 900])>>),
   variation_counts |-> SeedMap(sites, 1),
   last_synced_at |-> 0,
   name |-> "Old name", images |-> <<"old.jpg">>, categories |-> <<"Old">>,
   attributes |-> [gender |-> "Women", team |-> "Old FC"],
   woo_ids |-> SeedMap(sites, 70)]

\* a row whose per-site columns are no maps: regular_prices is absent,
\* stock_quantities holds a JSON string and the others are null; of the
\* canonical columns it has a name and attributes
NullRow(sku) ==
  [k \in {"sku", "name", "attributes"} \cup (PerSiteFields \ {"regular_prices"}) |->
     CASE k = "sku" -> sku
       [] k = "name" -> "Old name"
       [] k = "attributes" -> [team |-> "Old FC"]
       [] k = "stock_quantities" -> [text |-> "n/a"]
       [] OTHER -> Null]

StoreSeeds ==
  {<<>>,
   ("A" :> SeedRow("A", {"com", "uk", "de"})) @@ ("B" :> NullRow("B"))
     @@ ("Z" :> SeedRow("Z", {"de"}))}

SyncSites == {"com", "uk"}

\* ------------------------------------------------------------------- state
VARIABLES
  site,             \* the site of the running full_sync_site call
  max_workers,      \* the pool size the call was given
  catalog,          \* the items the site's shop lists (unchanged upstream)
  store,            \* the products table: sku -> row
  row,              \* the sync_progress row 'current' (status surface and oracle)
  pc,               \* position of the main thread in full_sync_site
  woo_products,     \* the list get_all_products returned
  total,
  progress,         \* {'completed', 'success', 'failed', 'cancelled'}
  pending_updates,  \* the pending buffer, a list of updates
  failed_skus,      \* the SKUs of the failed results, a list
  batch_to_write,   \* the copy of a full buffer; <<>> for None
  existing_result,  \* the rows the bulk read of the flush under way returned
  next,             \* index of the next queued task of the pool
  taken,            \* tasks a worker took off the queue and has not begun yet
  inflight,         \* indexes of the tasks that passed the flag check and run
  ready,            \* finished futures as_completed has not yielded yet, in
                    \* the order they finished
  yielded,          \* number of futures as_completed has yielded
  ret,              \* what the call returned (or the exception it raised)
  run,              \* number of the call, also the coarse clock of utcnow()
  cancels,          \* times the user pressed cancel (at most once a behaviour)
  statusLog,        \* statuses the call passed to update_progress, in order
  batches,          \* the calls of batch_update_products, in order
  lateStarts,       \* tasks that started when the flag was already set
  flagInflight,     \* tasks that were running when the flag was set
  requests,         \* tasks that issued the variations request
  fetchFailed,      \* tasks whose variations request failed
  produced,         \* tasks that returned a result other than None
  cancelPlan,       \* the completed count at which the user presses cancel; -1: never
  cancelAt,         \* completed count at the user's first cancel, -1 if none
  cancelInTime,     \* that cancel came while futures were still to be yielded
  missedRead,       \* a later check_if_cancelled did not report it
  ending,           \* the way the call ended
  faults,           \* upstream and datastore calls that failed so far
  snap,             \* the table when the previous call ended
  prevSite,         \* the site of the previous call
  shopSize,         \* WooCommerceClient: the shop lists the items 1..shopSize
  cpc,              \* position of a get_all_products call
  page,             \* the page get_all_products asks for
  all_products,     \* the items it has gathered
  attempt,          \* the loop index of _request_with_retry
  responses,        \* what the shop answered to the GETs of the current request
  asked,            \* the pages requested so far, in order
  waits,            \* the seconds _request_with_retry slept in this call, in order
  progress_lock,    \* the holder of progress_lock: "free" or "main"
  result,           \* future.result() of the future the consumer handles
  polled,           \* the polls of the oracle in the loop: completed and yielded
  upstreamAttrs,    \* woo_product['attributes'] of the item being remapped
  rpc,              \* the position of the attribute remapping
  apos,             \* the index of the attribute the loop of line 421 is at
  remapped,         \* the dict `attributes` of lines 420-441
  wsite,            \* concurrent batch_update_products calls: the site of each
  wupdates,         \* the updates each of them was given
  wpc,              \* the position of each: "fetch", "read", "upsert" or "done"
  wcall,            \* the arguments of each that is a pull_product_from_site call
  wresult,          \* what fetch_product_from_woo returned to each of those
  existing_map,     \* the rows each of them read at lines 233-237
  sites,            \* full_sync_all: the sites of the invocation, in order
  sidx,             \* the index of the site the loop of line 556 is at
  results,          \* the dict `results` of full_sync_all: site -> return value
  totals,           \* total_success and total_failed as full_sync_all logs them
  all_result        \* the return value of full_sync_all

vars == <<site, max_workers, catalog, store, row, pc, woo_products, total, progress,
          pending_updates, failed_skus, batch_to_write, existing_result, next,
          taken, inflight, ready,
          yielded, ret, run, cancels, statusLog, batches, lateStarts,
          flagInflight, requests, fetchFailed, produced, cancelAt, cancelInTime,
          missedRead,
          ending, faults, snap, prevSite, cancelPlan, shopSize, cpc, page,
          all_products, attempt, responses, asked, waits, progress_lock, result,
          polled, upstreamAttrs, rpc, apos, remapped, wsite, wupdates, wpc,
          wcall, wresult, existing_map, sites, sidx, results, totals, all_result>>

jobVars == <<woo_products, total, progress, pending_updates, failed_skus,
             batch_to_write, existing_result>>
poolVars == <<next, taken, inflight, ready, yielded>>
taskGhosts == <<lateStarts, flagInflight, requests, fetchFailed, produced>>
cancelGhosts == <<cancelAt, cancelInTime, missedRead, polled>>
lockVars == <<progress_lock, result>>
\* ret and ending change together, when the call ends
outcome == <<ret, ending>>
clientVars == <<shopSize, cpc, page, all_products, attempt, responses, asked,
                waits>>
remapVars == <<upstreamAttrs, rpc, apos, remapped>>
writerVars == <<wsite, wupdates, wpc, wcall, wresult, existing_map>>
allVars == <<sites, sidx, results, totals, all_result>>
envVars == <<site, max_workers, catalog, run, snap, prevSite, cancelPlan, clientVars,
            remapVars, writerVars, allVars>>

\* the outcomes an upstream or datastore call may have: it may fail while the
\* behaviour has failures left
Outcomes == IF faults < MaxFaults THEN BOOLEAN ELSE {TRUE}
Cost(ok) == IF ok THEN 0 ELSE 1

\* ------------------------------------------- update_progress, the oracle
IdleRow == [id |-> "current", status |-> "idle", site |-> "", current |-> 0,
            total |-> 0, success |-> 0, failed |-> 0]

\* the row update_progress upserts (lines 296-306)
update_progress(s, current, tot, success, failed, status) ==
  [id |-> "current", status |-> status, site |-> s, current |-> current,
   total |-> tot, success |-> success, failed |-> failed]

\* check_if_cancelled (lines 311-317): a failed read answers False
check_if_cancelled(r, readOk) == readOk /\ r.status = "cancelled"

\* one call of update_progress by the job; a failed write is swallowed
Report(ok, current, tot, success, failed, status) ==
  /\ row' = IF ok THEN update_progress(site, current, tot, success, failed, status)
            ELSE row
  /\ statusLog' = Append(statusLog, status)

\* one call of check_if_cancelled by the job, answering c
Read(readOk, c) ==
  /\ c = check_if_cancelled(row, readOk)
  /\ missedRead' = (missedRead \/ (cancelAt >= 0 /\ ~c))

\* ------------------------------------------------------------ return values
EarlyResultWithDuration(s, tot, extra) ==
  DictMerge([site |-> s, total |-> tot, success |-> 0, failed |-> 0,
             skipped |-> 0, duration |-> 0], extra)
\* the early returns of lines 357, 362 and 370
EarlyResult(s, tot, extra) ==
  DictMerge([site |-> s, total |-> tot, success |-> 0, failed |-> 0,
             skipped |-> 0], extra)

\* the return of lines 537-544
FinalResult(s, tot, p) ==
  [site |-> s, total |-> tot, success |-> p.success, failed |-> p.failed,
   duration |-> 0, cancelled |-> p.cancelled]

NotReturned == [returned |-> FALSE]
Raised == [raised |-> "Exception"]
Returned(r) == "site" \in DOMAIN r

NewProgress == [completed |-> 0, success |-> 0, failed |-> 0, cancelled |-> FALSE]

\* what a new call starts from
Fresh ==
  /\ pc' = "start"
  /\ woo_products' = <<>>
  /\ total' = 0
  /\ progress' = NewProgress
  /\ pending_updates' = <<>>
  /\ failed_skus' = <<>>
  /\ batch_to_write' = <<>>
  /\ existing_result' = <<>>
  /\ next' = 1
  /\ taken' = {}
  /\ inflight' = {}
  /\ ready' = <<>>
  /\ yielded' = 0
  /\ ret' = NotReturned
  /\ statusLog' = <<>>
  /\ batches' = <<>>
  /\ lateStarts' = {}
  /\ flagInflight' = {}
  /\ requests' = {}
  /\ fetchFailed' = {}
  /\ produced' = {}
  /\ cancelAt' = -1
  /\ cancelInTime' = FALSE
  /\ missedRead' = FALSE
  /\ ending' = ""
  /\ progress_lock' = "free"
  /\ result' = NoneResult
  /\ polled' = {}

\* no get_all_products call of the client is followed
ClientIdle ==
  /\ shopSize = 0
  /\ cpc = "idle"
  /\ page = 1
  /\ all_products = <<>>
  /\ attempt = 0
  /\ responses = <<>>
  /\ asked = <<>>
  /\ waits = <<>>

\* the job's variables before any call of full_sync_site has touched them
JobNew ==
  /\ row = IdleRow
  /\ woo_products = <<>>
  /\ total = 0
  /\ progress = NewProgress
  /\ pending_updates = <<>>
  /\ failed_skus = <<>>
  /\ batch_to_write = <<>>
  /\ existing_result = <<>>
  /\ next = 1
  /\ taken = {}
  /\ inflight = {}
  /\ ready = <<>>
  /\ yielded = 0
  /\ ret = NotReturned
  /\ statusLog = <<>>
  /\ batches = <<>>
  /\ lateStarts = {}
  /\ flagInflight = {}
  /\ requests = {}
  /\ fetchFailed = {}
  /\ produced = {}
  /\ cancelAt = -1
  /\ cancelInTime = FALSE
  /\ missedRead = FALSE
  /\ progress_lock = "free"
  /\ result = NoneResult
  /\ polled = {}
  /\ ending = ""
  /\ snap = <<>>
  /\ prevSite = ""

\* the state in which full_sync_site is called for the first time
JobCalled ==
  /\ pc = "start"
  /\ run = 1
  /\ JobNew

\* a short catalog, any site, any table, any cancel and any failure
\* no attribute remapping is under way
RemapIdle ==
  /\ upstreamAttrs = <<>>
  /\ rpc = "idle"
  /\ apos = 1
  /\ remapped = <<>>

\* no batch_update_products call of another job is under way
WritersIdle ==
  /\ wsite = <<>>
  /\ wupdates = <<>>
  /\ wpc = <<>>
  /\ wcall = <<>>
  /\ wresult = <<>>
  /\ existing_map = <<>>

\* full_sync_site is called on its own, not by full_sync_all
AllIdle ==
  /\ sites = <<>>
  /\ sidx = 1
  /\ results = <<>>
  /\ totals = <<>>
  /\ all_result = NotReturned

Called == ClientIdle /\ JobCalled /\ RemapIdle /\ WritersIdle /\ AllIdle

InitSmall ==
  /\ site \in SyncSites
  /\ max_workers \in {1, MaxWorkers}
  /\ catalog \in SmallCatalogs
  /\ store \in StoreSeeds
  /\ cancelPlan \in -1..MaxItems
  /\ cancels = 0
  /\ faults = MaxFaults - 1
  /\ Called

\* the updates the job of site s buffers for the items of a list
UpdatesFor(items, s, now) ==
  [i \in DOMAIN items |->
     process_woo_product(items[i], s, now,
                         [ok |-> TRUE,
                          body |-> UpstreamVariations(items[i]["id"])]).data]

\* full_sync_site under way in its loop (line 476) on a catalog that begins
\* with plain items: the results of the first k items have been consumed in
\* the order of the list, k below BATCH_SIZE, no call has failed and the row
\* was not cancelled; the progress writes of lines 350, 373 and 515 are
\* behind, one per POLL_EVERY results; every later task is still queued and
\* no worker holds one
Underway(k) ==
  /\ ClientIdle
  /\ RemapIdle
  /\ WritersIdle
  /\ AllIdle
  /\ pc = "loop"
  /\ run = 1
  /\ snap = <<>>
  /\ prevSite = ""
  /\ woo_products = catalog
  /\ total = Len(catalog)
  /\ progress = [completed |-> k, success |-> k, failed |-> 0, cancelled |-> FALSE]
  /\ pending_updates = UpdatesFor(SubSeq(catalog, 1, k), site, 1)
  /\ failed_skus = <<>>
  /\ batch_to_write = <<>>
  /\ existing_result = <<>>
  /\ LET reported == (k \div POLL_EVERY) * POLL_EVERY
     IN /\ row = update_progress(site, reported, Len(catalog), reported, 0, "running")
        /\ statusLog = [i \in 1..(2 + k \div POLL_EVERY) |-> "running"]
        /\ polled = {[completed |-> j * POLL_EVERY, yielded |-> j * POLL_EVERY]
                       : j \in 1..(k \div POLL_EVERY)}
  /\ next = k + 1
  /\ taken = {}
  /\ inflight = {}
  /\ ready = <<>>
  /\ yielded = k
  /\ produced = 1..k
  /\ requests = {}
  /\ fetchFailed = {}
  /\ lateStarts = {}
  /\ flagInflight = {}
  /\ batches = <<>>
  /\ ret = NotReturned
  /\ ending = ""
  /\ cancelAt = -1
  /\ cancelInTime = FALSE
  /\ missedRead = FALSE
  /\ progress_lock = "free"
  /\ result = NoneResult

\* catalogs that reach the first periodic poll with items still to come
PollCatalogs == {Bulk(POLL_EVERY, <<ItemA, ItemB>>),
                 Bulk(POLL_EVERY, <<ItemA, ItemBad, ItemNoSku, ItemB>>)}
\* such a catalog one result before that poll, the later tasks left to a
\* pool of one or of several workers; the user cancels before the poll, no
\* call fails
InitPoll ==
  /\ site \in SyncSites
  /\ max_workers \in {1, MaxWorkers}
  /\ catalog \in PollCatalogs
  /\ store = <<>>
  /\ cancelPlan = POLL_EVERY - 1
  /\ cancels = 0
  /\ faults = MaxFaults
  /\ Underway(POLL_EVERY - 1)

\* a catalog that fills the pending buffer to the flush threshold, one
\* result before the threshold; one call may fail, the user does not cancel
BatchCatalogs == {Bulk(BATCH_SIZE, <<ItemB>>), Bulk(BATCH_SIZE, <<ItemBad, ItemB>>)}
InitBatch ==
  /\ site = "uk"
  /\ max_workers \in {1, MaxWorkers}
  /\ catalog \in BatchCatalogs
  /\ store = <<>>
  /\ cancelPlan = -1
  /\ cancels = 1
  /\ faults = MaxFaults - 1
  /\ Underway(BATCH_SIZE - 1)

Init == InitSmall \/ InitPoll

InitAll == InitSmall \/ InitPoll \/ InitBatch

\* a short catalog synced while no call fails and the user does not cancel
InitQuiet ==
  /\ site \in SyncSites
  /\ max_workers \in 1..MaxWorkers
  /\ catalog \in SmallCatalogs
  /\ store \in StoreSeeds
  /\ cancelPlan = -1
  /\ cancels = 1
  /\ faults = MaxFaults
  /\ Called

\* --------------------------------------------------- full_sync_site, step 1
\* line 350: the first progress write
StartCall ==
  /\ pc = "start"
  /\ \E ok \in Outcomes :
       /\ Report(ok, 0, 0, 0, 0, "running")
       /\ faults' = faults + Cost(ok)
  /\ pc' = "list"
  /\ UNCHANGED <<store, outcome, cancels, batches, jobVars, poolVars, taskGhosts,
                 cancelGhosts, envVars,
                 lockVars>>

\* lines 352-365: client.get_all_products() returns the catalog or raises
ListProducts ==
  /\ pc = "list"
  /\ \E listed \in Outcomes :
       /\ faults' = faults + Cost(listed)
       /\ IF ~listed THEN /\ pc' = "list_error"
                          /\ UNCHANGED <<woo_products, total>>
          ELSE IF catalog = <<>> THEN /\ pc' = "list_empty"
                                      /\ UNCHANGED <<woo_products, total>>
          ELSE /\ woo_products' = catalog
               /\ total' = Len(catalog)
               /\ pc' = "check0"
  /\ UNCHANGED <<store, row, outcome, cancels, statusLog, batches, progress,
                 pending_updates, failed_skus, batch_to_write, existing_result,
                 poolVars,
                 taskGhosts, cancelGhosts, envVars,
                 lockVars>>

\* lines 356-357
ReportListingErrorAndRaise ==
  /\ pc = "list_error"
  /\ \E ok \in Outcomes :
       /\ Report(ok, 0, 0, 0, 0, "error")
       /\ faults' = faults + Cost(ok)
  /\ ret' = Raised
  /\ ending' = "listing failed"
  /\ pc' = "done"
  /\ UNCHANGED <<store, cancels, batches, jobVars, poolVars, taskGhosts,
                 cancelGhosts, envVars, lockVars>>
ReportListingError ==
  /\ pc = "list_error"
  /\ \E ok \in Outcomes :
       /\ Report(ok, 0, 0, 0, 0, "error")
       /\ faults' = faults + Cost(ok)
  /\ ret' = EarlyResult(site, 0, [error |-> "Exception"])
  /\ ending' = "listing failed"
  /\ pc' = "done"
  /\ UNCHANGED <<store, cancels, batches, jobVars, poolVars, taskGhosts,
                 cancelGhosts, envVars,
                 lockVars>>

\* lines 359-362
ReportEmptyCatalog ==
  /\ pc = "list_empty"
  /\ \E ok \in Outcomes :
       /\ Report(ok, 0, 0, 0, 0, "completed")
       /\ faults' = faults + Cost(ok)
  /\ ret' = EarlyResult(site, 0, <<>>)
  /\ ending' = "nothing listed"
  /\ pc' = "done"
  /\ UNCHANGED <<store, cancels, batches, jobVars, poolVars, taskGhosts,
                 cancelGhosts, envVars,
                 lockVars>>

\* a failed read answers like a read of a row that is not cancelled
ReadOutcomes == IF row.status = "cancelled" THEN Outcomes ELSE {TRUE}

\* line 368
CheckCancelledAfterListing ==
  /\ pc = "check0"
  /\ \E readOk \in ReadOutcomes, c \in BOOLEAN :
       /\ Read(readOk, c)
       /\ faults' = faults + Cost(readOk)
       /\ pc' = IF c THEN "cancel0" ELSE "step2"
  /\ UNCHANGED <<store, row, outcome, cancels, statusLog, batches, jobVars, poolVars,
                 taskGhosts, cancelAt, cancelInTime, polled, envVars,
                 lockVars>>

\* lines 369-370
ReportCancelledAfterListing ==
  /\ pc = "cancel0"
  /\ \E ok \in Outcomes :
       /\ Report(ok, 0, total, 0, 0, "cancelled")
       /\ faults' = faults + Cost(ok)
  /\ ret' = EarlyResult(site, total, [cancelled |-> TRUE])
  /\ ending' = "cancelled after listing"
  /\ pc' = "done"
  /\ UNCHANGED <<store, cancels, batches, jobVars, poolVars, taskGhosts,
                 cancelGhosts, envVars,
                 lockVars>>

\* lines 373-378 and 473-474: the step-2 progress write, the fresh progress
\* state, and one queued task per listed item
BeginProcessing ==
  /\ pc = "step2"
  /\ \E ok \in Outcomes :
       /\ Report(ok, 0, total, 0, 0, "running")
       /\ faults' = faults + Cost(ok)
  /\ progress' = NewProgress
  /\ pending_updates' = <<>>
  /\ failed_skus' = <<>>
  /\ next' = 1
  /\ taken' = {}
  /\ inflight' = {}
  /\ ready' = <<>>
  /\ yielded' = 0
  /\ pc' = "loop"
  /\ UNCHANGED <<store, outcome, cancels, batches, woo_products, total,
                 batch_to_write, existing_result, taskGhosts, cancelGhosts, envVars,
                 lockVars>>

\* ------------------------------------------------------------ the worker pool
PoolPcs == {"loop", "locked", "write", "upsert", "poll", "report", "shutdown"}

\* a finished future joins those as_completed can yield, after the ones that
\* finished before it; after the break nothing is yielded any more
Finished(i, res) ==
  IF pc = "shutdown" THEN ready' = ready
  ELSE ready' = Append(ready, [task |-> i, result |-> res])

\* line 382: a task that starts when the flag is set returns None at once
SkipNever(p) == FALSE
SkipDue(p) == p.cancelled

\* lines 473-474: every item is submitted up front; a free worker takes the
\* next task off the queue of the pool, however many results wait for the
\* consumer
TakeTask ==
  /\ pc \in PoolPcs
  /\ next <= total
  /\ Cardinality(taken \cup inflight) < max_workers
  /\ next' = next + 1
  /\ taken' = taken \cup {next}
  /\ UNCHANGED <<store, row, pc, outcome, cancels, statusLog, batches, jobVars,
                 inflight, ready, yielded, taskGhosts, cancelGhosts, faults,
                 envVars, lockVars>>

\* the worker begins the task it took: the flag check of lines 382-383 and
\* the SKU check of lines 385-390
TaskStart ==
  /\ pc \in PoolPcs
  /\ \E i \in taken :
       /\ taken' = taken \ {i}
       /\ lateStarts' = IF progress.cancelled THEN lateStarts \cup {i}
                        ELSE lateStarts
       /\ IF SkipDue(progress)
          THEN /\ Finished(i, NoneResult)
               /\ UNCHANGED inflight
          ELSE /\ IF SkuMissing(woo_products[i])
                  THEN Finished(i, NoneResult) /\ UNCHANGED inflight
                  ELSE inflight' = inflight \cup {i} /\ UNCHANGED ready
  /\ UNCHANGED <<store, row, pc, outcome, cancels, statusLog, batches, jobVars,
                 next, yielded, flagInflight, requests, fetchFailed, produced,
                 cancelGhosts, faults, envVars, lockVars>>

\* a running task returns: lines 392-470
TaskFinish ==
  /\ pc \in PoolPcs
  /\ \E i \in inflight :
       LET woo_product == woo_products[i]
           asks == NeedsVariations(woo_product) /\ ~ExtractionRaises(woo_product)
       IN \E fetchOk \in (IF asks THEN Outcomes ELSE {TRUE}) :
            /\ inflight' = inflight \ {i}
            /\ Finished(i, process_woo_product(woo_product, site, run,
                             [ok |-> fetchOk,
                              body |-> UpstreamVariations(woo_product["id"])]))
            /\ requests' = IF asks THEN requests \cup {i} ELSE requests
            /\ fetchFailed' = IF fetchOk THEN fetchFailed ELSE fetchFailed \cup {i}
            /\ produced' = produced \cup {i}
            /\ faults' = faults + Cost(fetchOk)
  /\ UNCHANGED <<store, row, pc, outcome, cancels, statusLog, batches, jobVars, next,
                 taken, yielded, lateStarts, flagInflight, cancelGhosts, envVars,
                 lockVars>>

\* ------------------------------------------------- the consumer, lines 476-525
\* lines 486-494: the counters after one result
CountedDroppingFailed(p, res) ==
  IF res.success
  THEN [p EXCEPT !.completed = @ + 1, !.success = @ + 1]
  ELSE [p EXCEPT !.failed = @ + 1]
Counted(p, res) ==
  IF res.success
  THEN [p EXCEPT !.completed = @ + 1, !.success = @ + 1]
  ELSE [p EXCEPT !.completed = @ + 1, !.failed = @ + 1]

\* lines 488-491: a successful payload joins the pending buffer
Appended(pending, res) ==
  IF res.success /\ "data" \in DOMAIN res
  THEN Append(pending, res.data) ELSE pending

\* line 498
FlushDueLate(pending) == Len(pending) > BATCH_SIZE
FlushDue(pending) == Len(pending) >= BATCH_SIZE

\* lines 500 and 530: pending_updates.clear()
ClearedKept(pending) == pending
Cleared(pending) == <<>>

\* line 507
PollDue(completed, tot) == completed % POLL_EVERY = 0 \/ completed = tot

\* line 477: the consumer leaves the loop
BreakDue(p) == p.cancelled

\* the end of the with block of lines 485-500: the lock is released
StillHeld == "main"
Released == "free"

\* the orders in which as_completed can yield the futures that wait: the
\* ones it finds finished when the iteration starts come in any order, the
\* later ones in the order they finish
Orders(q) ==
  {[i \in DOMAIN q |-> q[p[i]]] :
     p \in {f \in [DOMAIN q -> DOMAIN q] :
              \A a, b \in DOMAIN q : f[a] = f[b] => a = b}}
YieldOrders == IF yielded = 0 THEN Orders(ready) ELSE {ready}

\* as_completed yields a finished future: lines 476-485, up to the entry of
\* the with block (the lock is free: only the consumer ever takes it)
Consume ==
  /\ pc = "loop"
  /\ ready # <<>>
  /\ \E q \in YieldOrders :
       LET f == Head(q)
       IN /\ yielded' = yielded + 1
          /\ IF BreakDue(progress)
             THEN \* line 478: break, the results not consumed yet are dropped
                  /\ pc' = "shutdown"
                  /\ ready' = <<>>
                  /\ UNCHANGED lockVars
             ELSE /\ ready' = Tail(q)
                  /\ IF f.result = NoneResult
                     THEN \* line 483: continue
                          /\ pc' = "loop"
                          /\ UNCHANGED lockVars
                     ELSE \* line 485: the consumer waits for the lock
                          /\ progress_lock = "free"
                          /\ result' = f.result
                          /\ progress_lock' = "main"
                          /\ pc' = "locked"
  /\ UNCHANGED <<store, row, outcome, cancels, statusLog, batches, jobVars,
                 next, taken, inflight, taskGhosts, cancelGhosts, faults, envVars>>

\* lines 486-500, the critical section: the counters, the append to the
\* pending buffer and the swap of a full buffer; then the lock is released
Critical ==
  /\ pc = "locked"
  /\ LET appended == Appended(pending_updates, result)
     IN /\ progress' = Counted(progress, result)
        /\ failed_skus' = IF result.success THEN failed_skus
                          ELSE Append(failed_skus, result.sku)
        /\ IF FlushDue(appended)
           THEN /\ batch_to_write' = appended
                /\ pending_updates' = Cleared(appended)
                /\ pc' = "write"
           ELSE /\ batch_to_write' = <<>>
                /\ pending_updates' = appended
                /\ pc' = "poll"
  /\ progress_lock' = Released
  /\ result' = NoneResult
  /\ UNCHANGED <<store, row, outcome, cancels, statusLog, batches, woo_products,
                 total, existing_result, poolVars, taskGhosts, cancelGhosts, faults, envVars>>

\* what the job notes of a call of batch_update_products when it ends
BatchRecord(updates, ok, final) ==
  [skus |-> SkusOf(updates), rows |-> Len(updates), ok |-> ok, final |-> final,
   cancelled |-> progress.cancelled]

\* lines 503-504 and 232-237: the threshold flush, outside the lock, begins
\* with the bulk read; an exception of the writer is caught at line 524 and
\* the loop goes on with the next future
WriteBatch ==
  /\ pc = "write"
  /\ \E ok \in Outcomes :
       /\ faults' = faults + Cost(ok)
       /\ IF ok
          THEN /\ existing_result' = existing_map_of(store, batch_to_write)
               /\ pc' = "upsert"
               /\ UNCHANGED <<batches, batch_to_write>>
          ELSE /\ batches' = Append(batches, BatchRecord(batch_to_write, FALSE, FALSE))
               /\ batch_to_write' = <<>>
               /\ pc' = "loop"
               /\ UNCHANGED existing_result
  /\ UNCHANGED <<store, row, outcome, cancels, statusLog, woo_products, total,
                 progress, pending_updates, failed_skus, poolVars, taskGhosts,
                 cancelGhosts, envVars, lockVars>>

\* lines 243-275 of the threshold flush: the merge against the rows read and
\* the bulk upsert into the table as it is by then
UpsertBatch ==
  /\ pc = "upsert"
  /\ \E ok \in Outcomes :
       /\ store' = IF ok THEN final_updates_upserted(store, existing_result,
                                                     batch_to_write)
                  ELSE store
       /\ batches' = Append(batches, BatchRecord(batch_to_write, ok, FALSE))
       /\ faults' = faults + Cost(ok)
       /\ pc' = IF ok THEN "poll" ELSE "loop"
  /\ batch_to_write' = <<>>
  /\ existing_result' = <<>>
  /\ UNCHANGED <<row, outcome, cancels, statusLog, woo_products, total, progress,
                 pending_updates, failed_skus, poolVars, taskGhosts, cancelGhosts,
                 envVars, lockVars>>

\* line 514: only a job that is not cancelled reports 'running'
ReportAlways(p) == TRUE
ReportDue(p) == ~p.cancelled

\* lines 507-514: the poll of the oracle
PollCancelled ==
  /\ pc = "poll"
  /\ IF PollDue(progress.completed, total)
     THEN \E readOk \in ReadOutcomes, c \in BOOLEAN :
            /\ Read(readOk, c)
            /\ faults' = faults + Cost(readOk)
            /\ polled' = polled \cup {[completed |-> progress.completed,
                                       yielded |-> yielded]}
            /\ progress' = IF c THEN [progress EXCEPT !.cancelled = TRUE]
                           ELSE progress
            /\ flagInflight' = IF c THEN inflight ELSE flagInflight
            /\ pc' = IF ReportDue(progress') THEN "report" ELSE "loop"
     ELSE /\ pc' = "loop"
          /\ UNCHANGED <<progress, flagInflight, missedRead, faults, polled>>
  /\ UNCHANGED <<store, row, outcome, cancels, statusLog, batches, woo_products, total,
                 pending_updates, failed_skus, batch_to_write, existing_result,
                 poolVars, lateStarts,
                 requests, fetchFailed, produced, cancelAt, cancelInTime, envVars,
                 lockVars>>

\* lines 514-521: the progress write of a job that is not cancelled
ReportProgress ==
  /\ pc = "report"
  /\ \E ok \in Outcomes :
       /\ Report(ok, progress.completed, total, progress.success, progress.failed,
                 "running")
       /\ faults' = faults + Cost(ok)
  /\ pc' = "loop"
  /\ UNCHANGED <<store, outcome, cancels, batches, jobVars, poolVars, taskGhosts,
                 cancelGhosts, envVars,
                 lockVars>>

\* as_completed has yielded every future: the for loop ends
LoopExit ==
  /\ pc = "loop"
  /\ yielded = total
  /\ pc' = "shutdown"
  /\ UNCHANGED <<store, row, outcome, cancels, statusLog, batches, jobVars, poolVars,
                 taskGhosts, cancelGhosts, faults, envVars,
                 lockVars>>

\* the pool shut down without waiting for the queued tasks
ShutdownNoWait ==
  /\ pc = "shutdown"
  /\ ready' = <<>>
  /\ pc' = "flush"
  /\ UNCHANGED <<store, row, outcome, cancels, statusLog, batches, jobVars, next,
                 taken, inflight, yielded, taskGhosts, cancelGhosts, faults,
                 envVars, lockVars>>

\* the end of the with block: shutdown(wait=True) returns when every queued
\* task has run
Shutdown ==
  /\ pc = "shutdown"
  /\ next > total
  /\ taken = {}
  /\ inflight = {}
  /\ ready' = <<>>
  /\ pc' = "flush"
  /\ UNCHANGED <<store, row, outcome, cancels, statusLog, batches, jobVars, next,
                 taken, inflight, yielded, taskGhosts, cancelGhosts, faults,
                 envVars, lockVars>>

\* line 528
FinalFlushDueNever(pending, cancelled) == FALSE
FinalFlushDue(pending, cancelled) == pending # <<>> /\ ~cancelled

\* lines 528-529 and 232-237: the flush of the remaining buffer begins with
\* the bulk read; nothing catches an exception of the writer here, it leaves
\* full_sync_site
FinalFlush ==
  /\ pc = "flush"
  /\ IF FinalFlushDue(pending_updates, progress.cancelled)
     THEN \E ok \in Outcomes :
            /\ faults' = faults + Cost(ok)
            /\ IF ok THEN /\ existing_result' = existing_map_of(store, pending_updates)
                          /\ pc' = "final_upsert"
                          /\ UNCHANGED <<batches, outcome>>
               ELSE /\ batches' = Append(batches,
                                         BatchRecord(pending_updates, FALSE, TRUE))
                    /\ ret' = Raised
                    /\ ending' = "raised"
                    /\ pc' = "done"
                    /\ UNCHANGED existing_result
     ELSE /\ pc' = "final"
          /\ UNCHANGED <<existing_result, batches, outcome, faults>>
  /\ UNCHANGED <<store, row, cancels, statusLog, woo_products, total, progress,
                 pending_updates, failed_skus, batch_to_write, poolVars,
                 taskGhosts, cancelGhosts, envVars, lockVars>>

\* lines 243-275 of the final flush and line 530: the merge, the bulk
\* upsert and the clear of the buffer
FinalUpsert ==
  /\ pc = "final_upsert"
  /\ \E ok \in Outcomes :
       /\ batches' = Append(batches, BatchRecord(pending_updates, ok, TRUE))
       /\ faults' = faults + Cost(ok)
       /\ IF ok THEN /\ store' = final_updates_upserted(store, existing_result,
                                                        pending_updates)
                     /\ pending_updates' = Cleared(pending_updates)
                     /\ pc' = "final"
                     /\ UNCHANGED outcome
          ELSE /\ ret' = Raised
               /\ ending' = "raised"
               /\ pc' = "done"
               /\ UNCHANGED <<store, pending_updates>>
  /\ existing_result' = <<>>
  /\ UNCHANGED <<row, cancels, statusLog, woo_products, total, progress,
                 failed_skus, batch_to_write, poolVars, taskGhosts, cancelGhosts,
                 envVars, lockVars>>

\* line 533
final_statusWithError(p) ==
  IF p.cancelled THEN "cancelled" ELSE IF p.failed > 0 THEN "error" ELSE "completed"
final_status(p) == IF p.cancelled THEN "cancelled" ELSE "completed"

\* lines 532-544: the terminal progress write and the return
FinalReport ==
  /\ pc = "final"
  /\ \E ok \in Outcomes :
       /\ Report(ok, progress.completed, total, progress.success, progress.failed,
                 final_status(progress))
       /\ faults' = faults + Cost(ok)
  /\ ret' = FinalResult(site, total, progress)
  /\ ending' = "processed"
  /\ pc' = "done"
  /\ UNCHANGED <<store, cancels, batches, jobVars, poolVars, taskGhosts,
                 cancelGhosts, envVars,
                 lockVars>>

\* ------------------------------------------------------------ environment
LoopPcs == {"loop", "locked", "write", "upsert", "poll", "report"}

\* the control surface sets the status of the row to 'cancelled'
UserCancel ==
  /\ pc # "done"
  /\ cancels = 0
  /\ progress.completed = cancelPlan
  /\ cancels' = cancels + 1
  /\ row' = [row EXCEPT !.status = "cancelled"]
  /\ IF cancelAt = -1
     THEN /\ cancelAt' = progress.completed
          /\ cancelInTime' = (pc \in LoopPcs /\ yielded < total)
     ELSE UNCHANGED <<cancelAt, cancelInTime>>
  /\ UNCHANGED <<store, pc, outcome, statusLog, batches, jobVars, poolVars, taskGhosts,
                 missedRead, polled, faults, envVars,
                 lockVars>>

\* full_sync_site is called again, for any site, with the shop unchanged
Restart ==
  /\ pc = "done"
  /\ run < MaxRuns
  /\ \E s \in SyncSites : site' = s
  /\ UNCHANGED max_workers
  /\ prevSite' = site
  /\ snap' = store
  /\ run' = run + 1
  /\ Fresh
  /\ UNCHANGED <<catalog, store, row, cancels, faults, cancelPlan, clientVars,
                 remapVars, writerVars, allVars>>

\* ------------------------------------------------ WooCommerceClient, lines 70-119
\* every variable of the site job
jobRest == <<site, max_workers, catalog, row, pc, woo_products, total,
            progress, pending_updates, failed_skus, batch_to_write,
            existing_result, next, taken, inflight, ready, yielded, ret, run, cancels, statusLog, batches, lateStarts,
            flagInflight, requests, fetchFailed, produced, cancelAt, cancelInTime,
          missedRead,
            ending, faults, snap, prevSite, cancelPlan, progress_lock, result,
            polled>>
jobAll == <<store, jobRest>>

\* what one GET can end with: a status code, or a transport error raised by
\* requests.get (timeout, connection reset)
Responses == {"200", "503", "404", "429", "transport"}

\* the sizes of the shop's catalog: N - 1 full pages and M items on page N
ShopSizes == {(n - 1) * per_page + m : n \in 1..MaxPages, m \in {0, 1, per_page - 1}}

\* GET /products?page=p&per_page=100 answered with status 200
PageOf(size, p) ==
  [i \in 1..(IF p * per_page <= size THEN per_page
             ELSE IF (p - 1) * per_page < size THEN size - (p - 1) * per_page
             ELSE 0) |-> (p - 1) * per_page + i]

\* lines 77 and 85: attempt < max_retries - 1
RetryOnlyOnce(a) == a < max_retries - 2
RetryAllowed(a) == a < max_retries - 1

\* lines 78 and 86: wait_time = (attempt + 1) * 2
wait_timeFirst(a) == (0 + 1) * 2
wait_time(a) == (a + 1) * 2

\* one pass of the loop body of lines 74-90 at loop index a, the GET answered
\* with r: "return" (line 83), "next" (the loop goes on) or "raise" (line 90)
AttemptOutcome(a, r) ==
  IF r = "transport"
  THEN \* requests.get raised: the except of line 84
       IF RetryAllowed(a) THEN "next" ELSE "raise"
  ELSE IF r = "503" /\ RetryAllowed(a)
       THEN "next"                      \* line 81: continue
       ELSE IF r = "200"
            THEN "return"               \* raise_for_status passes, line 83
            ELSE \* raise_for_status raises HTTPError, a RequestException:
                 \* the except of line 84 again
                 IF RetryAllowed(a) THEN "next" ELSE "raise"

\* a get_all_products call starts against a shop of some size
InitClient ==
  /\ site = PRIMARY
  /\ max_workers = 1
  /\ catalog = <<>>
  /\ store = <<>>
  /\ cancelPlan = -1
  /\ cancels = 0
  /\ faults = 0
  /\ JobCalled
  /\ RemapIdle
  /\ WritersIdle
  /\ AllIdle
  /\ shopSize \in ShopSizes
  /\ cpc = "page"
  /\ page = 1
  /\ all_products = <<>>
  /\ attempt = 0
  /\ responses = <<>>
  /\ asked = <<>>
  /\ waits = <<>>

\* lines 111 and 99-102: get_products_page enters _request_with_retry
GetPage ==
  /\ cpc = "page"
  /\ asked' = Append(asked, page)
  /\ attempt' = 0
  /\ responses' = <<>>
  /\ waits' = <<>>
  /\ cpc' = "attempt"
  /\ UNCHANGED <<shopSize, page, all_products, jobAll, remapVars, writerVars, allVars>>

\* lines 73-91: one GET and what the loop does with its answer
Attempt ==
  /\ cpc = "attempt"
  /\ \E r \in Responses :
       /\ responses' = Append(responses, r)
       /\ LET o == AttemptOutcome(attempt, r)
          IN CASE o = "return" -> cpc' = "got" /\ UNCHANGED <<attempt, waits>>
               [] o = "raise" -> cpc' = "raised" /\ UNCHANGED <<attempt, waits>>
               [] o = "next" ->
                    \* lines 78-80 and 86-88: time.sleep(wait_time)
                    /\ waits' = Append(waits, wait_time(attempt))
                    /\ attempt' = attempt + 1
                    \* line 91 when range(max_retries) is used up
                    /\ cpc' = IF attempt + 1 < max_retries THEN "attempt"
                              ELSE "raised"
  /\ UNCHANGED <<shopSize, page, all_products, asked, jobAll, remapVars, writerVars, allVars>>

\* line 116
LastPageNever(products) == FALSE
LastPage(products) == Len(products) < per_page

\* lines 112-118: the page joins the list; a short or empty page ends the loop
TakePage ==
  /\ cpc = "got"
  /\ LET products == PageOf(shopSize, page)
     IN IF products = <<>>
        THEN cpc' = "returned" /\ UNCHANGED <<all_products, page>>
        ELSE /\ all_products' = all_products \o products
             /\ IF LastPage(products)
                THEN cpc' = "returned" /\ UNCHANGED page
                ELSE cpc' = "page" /\ page' = page + 1
  /\ UNCHANGED <<shopSize, attempt, responses, asked, waits, jobAll, remapVars, writerVars, allVars>>

\* ------------------------------------- the attribute remapping, lines 419-441
\* the attribute names and option lists of the sample items
AttrNames == {"Gender Age", "Gender", "Season", "Jersey Type", "Type", "Style",
              "Version", "Sleeve Length", "Sleeve", "Team", "Event", "Events",
              "Color"}
AttrOptions == {<<"Men">>, <<"Men", "Kids">>}
\* an upstream attribute: name and options, or one of them missing
AttrPool ==
  {[name |-> n, options |-> o] : n \in AttrNames, o \in AttrOptions}
    \cup {[name |-> n] : n \in AttrNames}
    \cup {[options |-> o] : o \in AttrOptions}
AttrLists == UNION {[1..n -> AttrPool] : n \in 0..MaxAttrs}

\* process_woo_product reaches line 420 for an item of the primary site
InitRemap ==
  /\ site = PRIMARY
  /\ max_workers = 1
  /\ catalog = <<>>
  /\ store = <<>>
  /\ cancelPlan = -1
  /\ cancels = 0
  /\ faults = 0
  /\ JobCalled
  /\ ClientIdle
  /\ WritersIdle
  /\ AllIdle
  /\ upstreamAttrs \in AttrLists
  /\ rpc = "loop"
  /\ apos = 1
  /\ remapped = <<>>

\* lines 421-438: one pass of the loop over the attributes
RemapStep ==
  /\ rpc = "loop"
  /\ apos <= Len(upstreamAttrs)
  /\ remapped' = AttrStep(remapped, upstreamAttrs[apos])
  /\ apos' = apos + 1
  /\ UNCHANGED <<upstreamAttrs, rpc, jobAll, clientVars, writerVars, allVars>>

\* lines 440-441: a non-empty dict is put in the update as 'attributes'
RemapEnd ==
  /\ rpc = "loop"
  /\ apos > Len(upstreamAttrs)
  /\ rpc' = IF DOMAIN remapped # {} THEN "submitted" ELSE "omitted"
  /\ UNCHANGED <<upstreamAttrs, apos, remapped, jobAll, clientVars, writerVars, allVars>>

NextRemap == RemapStep \/ RemapEnd

SpecRemap == InitRemap /\ [][NextRemap]_vars

\* ------- two writers in batch_update_products at once, lines 231-275, 280-290
Writers == {1, 2}
WriterBatches == {<<ItemA>>, <<ItemB>>, <<ItemA, ItemB>>}

\* the arguments sku and woo_id of pull_product_from_site calls: a product
\* under its own SKU, under another row's and under a new one, a product
\* without SKU, a malformed one and an id the shop does not have
PullCalls ==
  {[sku |-> "B", woo_id |-> 12], [sku |-> "A", woo_id |-> 12],
   [sku |-> "Q", woo_id |-> 12], [sku |-> "X", woo_id |-> 13],
   [sku |-> "C", woo_id |-> 14], [sku |-> "A", woo_id |-> 99]}
\* a writer that is a flush of a site job, not a pull
NoCall == [sku |-> "", woo_id |-> 0]

\* two writers, for different sites: each is a site job about to flush a
\* batch, or a pull_product_from_site call
InitWriters ==
  /\ site = PRIMARY
  /\ max_workers = 1
  /\ catalog = <<>>
  /\ store \in StoreSeeds
  /\ cancelPlan = -1
  /\ cancels = 0
  /\ faults = 0
  /\ JobCalled
  /\ ClientIdle
  /\ RemapIdle
  /\ AllIdle
  /\ wsite \in {f \in [Writers -> SITES] : f[1] # f[2]}
  /\ wcall \in [Writers -> PullCalls \cup {NoCall}]
  /\ wupdates \in {[w \in Writers |->
                      IF wcall[w] = NoCall THEN UpdatesFor(b[w], wsite[w], w)
                      ELSE <<>>]
                     : b \in [Writers -> WriterBatches]}
  /\ wpc = [w \in Writers |-> IF wcall[w] = NoCall THEN "read" ELSE "fetch"]
  /\ wresult = [w \in Writers |-> NoneResult]
  /\ existing_map = [w \in Writers |-> <<>>]

\* pull_product_from_site, lines 288-290: fetch_product_from_woo answers; a
\* success is handed to batch_update_products as a list of one update, a
\* failure is returned and nothing is written
FetchProduct ==
  \E w \in Writers :
    /\ wpc[w] = "fetch"
    /\ \E reached \in BOOLEAN, listed \in BOOLEAN :
         LET woo_id == wcall[w].woo_id
             got == IF reached THEN UpstreamProduct(woo_id) ELSE [ok |-> FALSE]
             fetch == IF listed
                      THEN [ok |-> TRUE, body |-> UpstreamVariations(woo_id)]
                      ELSE [ok |-> FALSE]
             res == fetch_product_from_woo(wcall[w].sku, wsite[w], w, got, fetch)
         IN /\ wresult' = [wresult EXCEPT ![w] = res]
            /\ IF res.success
               THEN /\ wupdates' = [wupdates EXCEPT ![w] = <<res.data>>]
                    /\ wpc' = [wpc EXCEPT ![w] = "read"]
               ELSE /\ wpc' = [wpc EXCEPT ![w] = "done"]
                    /\ UNCHANGED wupdates
    /\ UNCHANGED <<store, wsite, wcall, existing_map, jobRest, clientVars,
                   remapVars, allVars>>

\* lines 232-237: the bulk read of one of the writers
ReadExisting ==
  \E w \in Writers :
    /\ wpc[w] = "read"
    /\ existing_map' = [existing_map EXCEPT ![w] = existing_map_of(store, wupdates[w])]
    /\ wpc' = [wpc EXCEPT ![w] = "upsert"]
    /\ UNCHANGED <<store, wsite, wupdates, wcall, wresult, jobRest, clientVars,
                   remapVars, allVars>>

\* lines 243-275: the merge against the rows read and the bulk upsert
UpsertMerged ==
  \E w \in Writers :
    /\ wpc[w] = "upsert"
    /\ store' = final_updates_upserted(store, existing_map[w], wupdates[w])
    /\ wpc' = [wpc EXCEPT ![w] = "done"]
    /\ UNCHANGED <<wsite, wupdates, wcall, wresult, existing_map, jobRest,
                   clientVars, remapVars, allVars>>

NextWriters == FetchProduct \/ ReadExisting \/ UpsertMerged

SpecWriters == InitWriters /\ [][NextWriters]_vars

\* a catalog long enough to fill the buffer, synced for one site by a pool
\* of one or of several workers while the user does not cancel
NextFlush ==
  \/ TakeTask
  \/ TaskStart
  \/ TaskFinish
  \/ Consume
  \/ Critical
  \/ WriteBatch
  \/ UpsertBatch
  \/ PollCancelled
  \/ ReportProgress
  \/ LoopExit
  \/ Shutdown
  \/ FinalFlush
  \/ FinalUpsert
  \/ FinalReport

SpecFlush == InitBatch /\ [][NextFlush]_vars

NextClient == GetPage \/ Attempt \/ TakePage

SpecClient == InitClient /\ [][NextClient]_vars

\* a catalog shorter than BATCH_SIZE never fills the buffer: WriteBatch
\* cannot fire
NextShort ==
  \/ StartCall
  \/ ListProducts
  \/ ReportListingError
  \/ ReportEmptyCatalog
  \/ CheckCancelledAfterListing
  \/ ReportCancelledAfterListing
  \/ BeginProcessing
  \/ TakeTask
  \/ TaskStart
  \/ TaskFinish
  \/ Consume
  \/ Critical
  \/ PollCancelled
  \/ ReportProgress
  \/ LoopExit
  \/ Shutdown
  \/ FinalFlush
  \/ FinalUpsert
  \/ FinalReport
  \/ UserCancel

Next == NextShort \/ WriteBatch \/ UpsertBatch

\* the short catalogs
Spec == Init /\ [][NextShort]_vars

\* all catalogs, the one that reaches the flush threshold included
SpecBatch == InitAll /\ [][Next]_vars

\* the steps of calls in which nothing fails and nobody cancels, and the
\* next call
NextQuiet ==
  \/ StartCall
  \/ ListProducts
  \/ ReportEmptyCatalog
  \/ CheckCancelledAfterListing
  \/ BeginProcessing
  \/ TakeTask
  \/ TaskStart
  \/ TaskFinish
  \/ Consume
  \/ Critical
  \/ PollCancelled
  \/ ReportProgress
  \/ LoopExit
  \/ Shutdown
  \/ FinalFlush
  \/ FinalUpsert
  \/ FinalReport
  \/ Restart

\* repeated calls against an unchanged shop, without failure or cancellation
SpecAgain == InitQuiet /\ [][NextQuiet]_vars

\* a catalog with a periodic poll before its end, synced by a pool of one or
\* of several workers while no call fails; the user cancels when POLL_EVERY
\* items are completed, at
\* any point between the critical section and the end of the job
InitCancel ==
  /\ site = "uk"
  /\ max_workers \in {1, MaxWorkers}
  /\ catalog \in PollCatalogs
  /\ store = <<>>
  /\ cancelPlan = POLL_EVERY
  /\ cancels = 0
  /\ faults = MaxFaults
  /\ Underway(POLL_EVERY - 1)

NextCancel ==
  \/ TakeTask
  \/ TaskStart
  \/ TaskFinish
  \/ Consume
  \/ Critical
  \/ PollCancelled
  \/ ReportProgress
  \/ LoopExit
  \/ Shutdown
  \/ FinalFlush
  \/ FinalUpsert
  \/ FinalReport
  \/ UserCancel

SpecCancel == InitCancel /\ [][NextCancel]_vars

\* ----------------------------------------------- full_sync_all, lines 547-572
\* the `sites` of a full-sync request: a list, which may name a site that
\* is not configured, or none
SiteLists == {<<"com", "uk">>, <<"uk", "com">>, <<"com", "xx">>, <<"xx", "uk">>}
SiteRequests == {[given |-> TRUE, sites |-> l] : l \in SiteLists}
                  \cup {[given |-> FALSE, sites |-> <<>>]}
\* lines 549-550: every site when the caller names none
sites_or_default(request) ==
  IF request.given THEN request.sites ELSE <<"com", "uk", "de", "fr">>

\* full_sync_all(sites) is about to enter its loop; one call may fail and
\* the user may cancel once
InitSites ==
  /\ sites \in {sites_or_default(r) : r \in SiteRequests}
  /\ sidx = 1
  /\ results = <<>>
  /\ totals = <<>>
  /\ all_result = NotReturned
  /\ site = ""
  /\ max_workers = max_workers_default
  /\ catalog \in SmallCatalogs
  /\ store = <<>>
  /\ cancelPlan \in 0..MaxItems
  /\ cancels = 0
  /\ faults \in {MaxFaults - 1, MaxFaults}
  /\ pc = "all_next"
  /\ run = 0
  /\ ClientIdle
  /\ JobNew
  /\ RemapIdle
  /\ WritersIdle

\* lines 557-559: a site that is not configured is skipped
SkipUnknownSite ==
  /\ pc = "all_next"
  /\ sidx <= Len(sites)
  /\ sites[sidx] \notin SITES
  /\ sidx' = sidx + 1
  /\ UNCHANGED <<sites, results, totals, all_result, store, jobRest, clientVars,
                 remapVars, writerVars>>

\* line 560: full_sync_site(supabase, site) is called for the site the loop
\* is at, with the default pool size
SyncNextSite ==
  /\ pc = "all_next"
  /\ sidx <= Len(sites)
  /\ sites[sidx] \in SITES
  /\ site' = sites[sidx]
  /\ max_workers' = max_workers_default
  /\ prevSite' = site
  /\ snap' = store
  /\ run' = run + 1
  /\ Fresh
  /\ UNCHANGED <<allVars, catalog, store, row, cancels, faults,
                 cancelPlan, clientVars, remapVars, writerVars>>

\* line 560: full_sync_site returned and its result is kept under the site;
\* the loop goes on to the next site
StoreResult ==
  /\ pc = "done"
  /\ Returned(ret)
  /\ sidx <= Len(sites)
  /\ all_result = NotReturned
  /\ results' = (site :> ret) @@ results
  /\ sidx' = sidx + 1
  /\ pc' = "all_next"
  /\ UNCHANGED <<sites, totals, all_result, site, max_workers, catalog, store,
                 row, jobVars, poolVars, taskGhosts, cancelGhosts, lockVars,
                 outcome, run, cancels, statusLog, batches, faults, snap,
                 prevSite, cancelPlan, clientVars, remapVars, writerVars>>

\* line 560: full_sync_site raised; full_sync_all handles no exception and
\* ends with it
RaiseAll ==
  /\ pc = "done"
  /\ ret = Raised
  /\ sidx <= Len(sites)
  /\ all_result = NotReturned
  /\ all_result' = Raised
  /\ pc' = "all_done"
  /\ UNCHANGED <<sites, sidx, results, totals, site, max_workers, catalog, store,
                 row, jobVars, poolVars, taskGhosts, cancelGhosts, lockVars,
                 outcome, run, cancels, statusLog, batches, faults, snap,
                 prevSite, cancelPlan, clientVars, remapVars, writerVars>>

RECURSIVE SumOf(_, _, _)
\* sum(r[f] for r in results.values()), over the sites S
SumOf(res, S, f) ==
  IF S = {} THEN 0
  ELSE LET s == CHOOSE x \in S : TRUE
       IN res[s][f] + SumOf(res, S \ {s}, f)

\* lines 562-572: after the last site the totals are logged and the results
\* returned
ReturnAll ==
  /\ pc = "all_next"
  /\ sidx > Len(sites)
  /\ totals' = [total_success |-> SumOf(results, DOMAIN results, "success"),
                total_failed |-> SumOf(results, DOMAIN results, "failed")]
  /\ all_result' = [success |-> TRUE, results |-> results, total_duration |-> 0]
  /\ pc' = "all_done"
  /\ UNCHANGED <<sites, sidx, results, site, max_workers, catalog, store,
                 row, jobVars, poolVars, taskGhosts, cancelGhosts, lockVars,
                 outcome, run, cancels, statusLog, batches, faults, snap,
                 prevSite, cancelPlan, clientVars, remapVars, writerVars>>

NextSites ==
  \/ StartCall
  \/ ListProducts
  \/ ReportListingError
  \/ ReportEmptyCatalog
  \/ CheckCancelledAfterListing
  \/ ReportCancelledAfterListing
  \/ BeginProcessing
  \/ TakeTask
  \/ TaskStart
  \/ TaskFinish
  \/ Consume
  \/ Critical
  \/ PollCancelled
  \/ ReportProgress
  \/ LoopExit
  \/ Shutdown
  \/ FinalFlush
  \/ FinalUpsert
  \/ FinalReport
  \/ UserCancel
  \/ SkipUnknownSite
  \/ SyncNextSite
  \/ StoreResult
  \/ RaiseAll
  \/ ReturnAll

SpecSites == InitSites /\ [][NextSites]_vars

\* ------------------------------------------------------------- termination
\* the short catalogs synced for one site by any pool: one call may fail, or
\* the user cancels before the first completion; and the catalogs with a
\* periodic poll, where the cancellation is observed while the pool of one or
\* of several workers has tasks queued, running and finished
InitLive ==
  \/ /\ site = "uk"
     /\ max_workers \in 1..MaxWorkers
     /\ catalog \in SmallCatalogs
     /\ store = <<>>
     /\ \/ cancelPlan = -1 /\ faults = MaxFaults - 1
        \/ cancelPlan = 0 /\ faults = MaxFaults
     /\ cancels = 0
     /\ Called
  \/ /\ site = "uk"
     /\ InitPoll

\* a step of the job: everything but the user's cancellation
JobStep ==
  \/ StartCall
  \/ ListProducts
  \/ ReportListingError
  \/ ReportEmptyCatalog
  \/ CheckCancelledAfterListing
  \/ ReportCancelledAfterListing
  \/ BeginProcessing
  \/ TakeTask
  \/ TaskStart
  \/ TaskFinish
  \/ Consume
  \/ Critical
  \/ PollCancelled
  \/ ReportProgress
  \/ LoopExit
  \/ Shutdown
  \/ FinalFlush
  \/ FinalUpsert
  \/ FinalReport

\* every call returns or fails in finite time and the threads are scheduled:
\* the job is not halted for ever while one of its steps can be taken
SpecLive == InitLive /\ [][NextShort]_vars /\ WF_vars(JobStep)

\* ================================================================== claims
Last(q) == q[Len(q)]
Handed == UNION {batches[i].skus : i \in 1..Len(batches)}
Written == UNION {batches[i].skus : i \in {j \in 1..Len(batches) : batches[j].ok}}
Terminal == {"completed", "error", "cancelled"}

\* the members of a list
Elems(q) == {q[i] : i \in DOMAIN q}

\* the entry of site b in the per-site map f of the row of sku, kept by a step
KeepsEntry(sku, f, b) ==
  /\ sku \in DOMAIN store'
  /\ f \in DOMAIN store'[sku]
  /\ IsDict(store'[sku][f])
  /\ b \in DOMAIN store'[sku][f]
  /\ store'[sku][f][b] = store[sku][f][b]

ForeignEntriesKept ==
  \A sku \in DOMAIN store :
    \A f \in PerSiteFields \cap DOMAIN store[sku] :
      IsDict(store[sku][f]) =>
        \A b \in DOMAIN store[sku][f] \ {site} : KeepsEntry(sku, f, b)

\* C1: every step of a job for site A, a call of batch_update_products
\* included, leaves the entry of every other site B in every per-site map of
\* every stored row equal to its value before the step.
C1_MergePreservesForeignSites == [][ForeignEntriesKept]_vars

\* a uk job has written its price of sku A next to the prices of com and de
C1_Witness ==
  /\ site = "uk"
  /\ "A" \in Written
  /\ {"com", "uk", "de"} \subseteq DOMAIN store["A"]["prices"]
  /\ "de" \in DOMAIN store["A"]["variations"]
  /\ store["A"]["prices"]["uk"] = 900
  /\ store["A"]["prices"]["de"] = 7700
  /\ store["A"]["prices"]["com"] = 7700
  /\ store["A"]["variations"]["de"] = <<VariationRecord([id |-> 900])>>

\* C2 as stated: when the call has observed cancellation at a poll and has
\* written the terminal status 'cancelled', the updates of the pending buffer
\* have been handed to the batch writer.
C2_PendingFlushedBeforeCancelled ==
  (progress.cancelled /\ pc = "done" /\ Last(statusLog) = "cancelled")
    => SkusOf(pending_updates) \subseteq Handed

\* C3 as stated: the user cancels after the K-th completion, K < total, while
\* items are still to be handled, and every later read of the oracle reports
\* it; then the call ends with completed >= K and 'cancelled' as the last
\* status written.
C3_CancelAfterKEndsCancelled ==
  (/\ pc = "done"
   /\ Returned(ret)
   /\ cancelAt >= 0
   /\ cancelAt < total
   /\ cancelInTime
   /\ ~missedRead)
    => /\ progress.completed >= cancelAt
       /\ Last(statusLog) = "cancelled"

\* C4 as stated: when a cancelled call has ended, every task that returned a
\* result (all of them were dispatched before the flag was set) has been
\* counted in completed.
C4_DispatchedResultsAccumulated ==
  (pc = "done" /\ progress.cancelled)
    => Cardinality(produced) = progress.completed

\* C5: a task that starts when the flag is set issues no upstream request and
\* returns no result; a task that had passed the flag check when the flag was
\* set keeps running until it returns its result.
C5_CancelledTasksSkipRunningTasksFinish ==
  /\ lateStarts \cap requests = {}
  /\ lateStarts \cap produced = {}
  /\ lateStarts \cap inflight = {}
  /\ flagInflight \subseteq inflight \cup produced
  /\ pc \in {"flush", "final_upsert", "final", "done"}
       => flagInflight \subseteq produced

\* a pool of several workers: the flag was set while a task ran and the
\* result of another waited for the consumer; two tasks started later, one
\* of them a variable product with a SKU
C5_Witness ==
  /\ pc = "done"
  /\ max_workers > 1
  /\ flagInflight # {}
  /\ Cardinality(produced) > progress.completed + Cardinality(flagInflight)
  /\ Cardinality(lateStarts) > 1
  /\ \E i \in lateStarts : /\ NeedsVariations(woo_products[i])
                            /\ ~SkuMissing(woo_products[i])

\* the update records the job holds: returned by a task, buffered, or copied
\* for a write
HeldUpdates ==
  Elems(pending_updates) \cup Elems(batch_to_write)
    \cup {f.result.data : f \in {g \in Elems(ready) : "data" \in DOMAIN g.result}}

NoCanonicalSubmitted ==
  \A u \in HeldUpdates : DOMAIN u \cap CanonicalFields = {}

CanonicalKept ==
  \A sku \in DOMAIN store :
    /\ sku \in DOMAIN store'
    /\ \A f \in CanonicalFields :
         IF f \in DOMAIN store[sku]
         THEN f \in DOMAIN store'[sku] /\ store'[sku][f] = store[sku][f]
         ELSE f \notin DOMAIN store'[sku]

\* C6: in a job for a site other than 'com' no update record carries name,
\* images, categories or attributes, and no step changes one of these four
\* fields of a stored row.
C6_CanonicalWriteIsolation ==
  /\ [](site # PRIMARY => NoCanonicalSubmitted)
  /\ [][site # PRIMARY => CanonicalKept]_vars

\* a uk job has written sku A: its uk price is new, its name is the stored one
C6_Witness ==
  /\ site = "uk"
  /\ pc = "done"
  /\ "A" \in Written
  /\ "uk" \in DOMAIN store["A"]["content"]
  /\ store["A"]["content"]["uk"]["name"] = "Home Shirt"
  /\ "name" \in DOMAIN store["A"]
  /\ store["A"]["name"] = "Old name"
  /\ store["A"]["attributes"] = [gender |-> "Women", team |-> "Old FC"]

\* C7: every row written by the job has variation_counts[site] equal to the
\* length of variations[site].
C7_CountInvariant ==
  \A sku \in Written :
    /\ sku \in DOMAIN store
    /\ site \in DOMAIN store[sku]["variation_counts"]
    /\ site \in DOMAIN store[sku]["variations"]
    /\ store[sku]["variation_counts"][site] = Len(store[sku]["variations"][site])

\* the variation fetch of the variable product B failed: written with count 0
\* and an empty list, next to a simple product written the same way
C7_Witness ==
  /\ pc = "done"
  /\ {"A", "B"} \subseteq Written
  /\ faults = 1
  /\ \E i \in requests : woo_products[i]["sku"] = "B"
  /\ store["B"]["variations"][site] = <<>>
  /\ store["B"]["variation_counts"][site] = 0
  /\ store["A"]["variation_counts"][site] = 0

SameButSyncTime(a, b) ==
  /\ DOMAIN a = DOMAIN b
  /\ \A f \in DOMAIN a \ {"last_synced_at"} : a[f] = b[f]

\* C8: a second run for the same site over the same catalog, without failure
\* and without cancellation, leaves every stored row as the first run left it,
\* last_synced_at excepted, in whichever order the tasks of either run finish.
C8_SecondRunChangesNothing ==
  (pc = "done" /\ run >= 2 /\ prevSite = site /\ Returned(ret))
    => /\ DOMAIN store = DOMAIN snap
       /\ \A sku \in DOMAIN store : SameButSyncTime(store[sku], snap[sku])

\* the second run wrote the variable product B again: only the time moved
C8_Witness ==
  /\ pc = "done"
  /\ run = 2
  /\ prevSite = site
  /\ {"A", "B"} \subseteq Written
  /\ {"A", "B"} \subseteq DOMAIN snap
  /\ Len(store["B"]["variations"][site]) = 2
  /\ snap["B"]["last_synced_at"] = 1
  /\ store["B"]["last_synced_at"] = 2

\* C9 as stated: when a batch write has failed, threshold flush or final
\* flush, the call still writes a terminal status and returns its result.
C9_BatchFailureNeverAborts ==
  (pc = "done" /\ \E i \in 1..Len(batches) : ~batches[i].ok)
    => /\ Returned(ret)
       /\ Last(statusLog) \in Terminal

Counts == {"total", "success", "failed"}

\* C10 as stated: every result the call returns carries total, success,
\* failed and the elapsed duration.
C10_ResultAlwaysHasDuration ==
  (pc = "done" /\ Returned(ret))
    => Counts \cup {"duration"} \subseteq DOMAIN ret

\* C10 as the code has it: every result the call returns carries total,
\* success and failed; it carries the duration exactly when the call went
\* through the processing stage (ended completed or cancelled during
\* processing), and not when it returned early (listing failure, empty
\* catalog, cancelled right after listing).
C10_ResultCountsAndDuration ==
  (pc = "done" /\ Returned(ret))
    => /\ Counts \subseteq DOMAIN ret
       /\ "duration" \in DOMAIN ret <=> ending = "processed"

\* the listing failed: the result has the counts and no duration
C10_Witness ==
  /\ pc = "done"
  /\ ending = "listing failed"
  /\ Returned(ret)
  /\ "error" \in DOMAIN ret
  /\ "duration" \notin DOMAIN ret

\* a 503 status or a transport error
Transient(r) == r \in {"503", "transport"}

\* C11: a request whose every GET fails with 503 or a transport error is
\* given up after exactly 3 GETs (2 retries), the failure going to the
\* caller; a request answered with success at GET number k <= 3 returns
\* after exactly k GETs; no request issues more than 3 GETs.
C11_RetryBound ==
  /\ Len(responses) <= max_retries
  /\ (cpc = "raised" /\ \A i \in 1..Len(responses) : Transient(responses[i]))
       => Len(responses) = max_retries
  /\ cpc = "got"
       => /\ responses[Len(responses)] = "200"
          /\ \A i \in 1..(Len(responses) - 1) : responses[i] # "200"
  /\ (cpc = "attempt" /\ responses # <<>>)
       => \A i \in 1..Len(responses) : responses[i] # "200"

\* three GETs failed transiently, a 503 among them, and the request raised
C11_Witness ==
  /\ cpc = "raised"
  /\ responses = <<"503", "transport", "503">>
  /\ attempt = max_retries - 1

\* C12 as stated: a request whose first GET is answered with 404 issues no
\* second GET and fails at once.
C12_NonTransientNotRetried ==
  (responses # <<>> /\ responses[1] = "404")
    => (cpc = "raised" /\ Len(responses) = 1)

\* the pages of a shop of the given size: full pages, then a short one
PagesOf(size) == (size \div per_page) + 1

\* C13: when get_all_products returns, its list is the shop's catalog in
\* upstream order, (N-1)*100 + M items, and the pages requested are exactly
\* 1..N; no page after page N is ever requested.
C13_PaginationTermination ==
  /\ \A i \in 1..Len(asked) : asked[i] = i /\ i <= PagesOf(shopSize)
  /\ cpc = "returned"
       => /\ all_products = [i \in 1..shopSize |-> i]
          /\ Len(asked) = PagesOf(shopSize)

\* two full pages and an empty third page: 200 items after three requests
C13_Witness ==
  /\ cpc = "returned"
  /\ shopSize = 2 * per_page
  /\ asked = <<1, 2, 3>>
  /\ Len(all_products) = 2 * per_page
  /\ all_products[2 * per_page] = 2 * per_page

\* C14 as stated: a job that went through its items without being cancelled
\* has polled the oracle at every multiple of 50 its completed count reached,
\* and once when its last item had been handled.
C14_PollsEveryFiftyAndAtTheEnd ==
  (pc = "done" /\ ending = "processed" /\ ~progress.cancelled)
    => /\ \A k \in 1..progress.completed :
            k % POLL_EVERY = 0 => \E p \in polled : p.completed = k
       /\ \E p \in polled : p.yielded = total

\* C15: once the cancelled flag is set, the only status the job passes to
\* update_progress is 'cancelled': it never writes 'running' again, and the
\* call ends with 'cancelled' as the last status written.
C15_NoRunningAfterCancelled ==
  /\ [][progress.cancelled =>
          \/ statusLog' = statusLog
          \/ statusLog' = Append(statusLog, "cancelled")]_vars
  /\ []((progress.cancelled /\ pc = "done") => Last(statusLog) = "cancelled")

\* the flag was set at the poll after the 50th completion, after which the
\* job wrote 'cancelled' and nothing else
C15_Witness ==
  /\ pc = "done"
  /\ progress.cancelled
  /\ progress.completed = POLL_EVERY
  /\ statusLog = <<"running", "running", "cancelled">>

\* C16: the statuses one call writes are 'running' writes followed by at most
\* one terminal status, which is the last write of the call; 'error' is
\* written only when the listing failed.
C16_StatusStateMachine ==
  /\ \A i \in 1..(Len(statusLog) - 1) : statusLog[i] = "running"
  /\ statusLog # <<>> => Last(statusLog) \in Terminal \cup {"running"}
  /\ (statusLog # <<>> /\ Last(statusLog) \in Terminal) => pc = "done"
  /\ (statusLog # <<>> /\ Last(statusLog) = "error") => ending = "listing failed"

\* a job with a failed item ended 'completed' after a progress write
C16_Witness ==
  /\ pc = "done"
  /\ progress.failed = 1
  /\ statusLog = <<"running", "running", "running", "completed">>

\* C17: when the listing fails, the call writes 'error', starts no task,
\* issues no variation request, hands no batch to the writer and returns a
\* result with the counts its caller sums.
C17_ListingFailureEndsInError ==
  /\ (pc = "list_error" \/ ending = "listing failed")
       => /\ next = 1 /\ inflight = {} /\ ready = <<>>
          /\ requests = {} /\ produced = {}
          /\ batches = <<>>
          /\ woo_products = <<>>
  /\ ending = "listing failed"
       => /\ pc = "done"
          /\ Last(statusLog) = "error"
          /\ Returned(ret)
          /\ Counts \subseteq DOMAIN ret
          /\ ret["success"] = 0 /\ ret["failed"] = 0

\* the listing failed over a seeded table: 'error' written, table untouched
C17_Witness ==
  /\ ending = "listing failed"
  /\ statusLog = <<"running", "error">>
  /\ row.status = "error"
  /\ store \in StoreSeeds \ {<<>>}
  /\ faults = 1

\* an item that lacks stock_quantity and stock_status
LacksStock(item) == DOMAIN item \cap {"stock_quantity", "stock_status"} = {}

\* C18: the result of an item that lacks stock_quantity and stock_status is a
\* success unless its price fails to parse; its update has
\* stock_quantities[site] = 100 and stock_statuses[site] = 'instock', and
\* statuses[site] = 'publish' when the item lacks status too; such an item
\* is never put on the failed list for the missing fields.
C18_FallbackDefaults ==
  /\ \A f \in Elems(ready) :
       LET item == woo_products[f.task]
       IN (f.result # NoneResult /\ LacksStock(item))
            => /\ f.result.success <=> ~ExtractionRaises(item)
               /\ f.result.success
                    => /\ f.result.data["stock_quantities"][site] = DEFAULT_STOCK
                       /\ f.result.data["stock_statuses"][site] = "instock"
                       /\ "status" \notin DOMAIN item
                            => f.result.data["statuses"][site] = "publish"
  /\ \A i \in 1..Len(woo_products) :
       woo_products[i]["sku"] \in Elems(failed_skus) => ExtractionRaises(woo_products[i])

\* 52 items went through, 50 of them without any stock field or status: all
\* were counted as successes and written with the defaults
C18_Witness ==
  /\ pc = "done"
  /\ progress.success = POLL_EVERY + 2
  /\ progress.failed = 0
  /\ "1" \in Written
  /\ LacksStock(woo_products[1])
  /\ store["1"]["stock_quantities"][site] = DEFAULT_STOCK
  /\ store["1"]["stock_statuses"][site] = "instock"
  /\ store["1"]["statuses"][site] = "publish"

\* C20 as stated: every step that changes the counters, the cancelled flag or
\* the pending buffer is taken with the progress lock held.
C20_SharedStateOnlyUnderLock ==
  [][(progress' # progress \/ pending_updates' # pending_updates)
       => progress_lock = "main"]_vars

\* C19: while the progress lock is held no batch is handed to the writer,
\* the table is not written, the oracle is not polled and no status is
\* written, and an upstream request issued meanwhile is a worker's, not the
\* lock holder's; the lock is held by the consumer only, between taking a
\* result and the end of the counter update, append and buffer swap.
C19_NoCallUnderLock ==
  /\ [](progress_lock = "main" <=> pc = "locked")
  /\ [][progress_lock = "main" =>
          /\ batches' = batches
          /\ store' = store
          /\ polled' = polled
          /\ statusLog' = statusLog
          /\ requests' = requests \/ pc' = pc]_vars

\* the 300th update was swapped out under the lock and then written with
\* the lock free
C19_Witness ==
  /\ progress_lock = "free"
  /\ pc = "poll"
  /\ progress.completed = BATCH_SIZE
  /\ pending_updates = <<>>
  /\ Len(batches) = 1
  /\ batches[1].rows = BATCH_SIZE
  /\ batches[1].ok

\* the batches handed to the writer by the threshold flush of lines 503-504
ThresholdBatches == {i \in 1..Len(batches) : ~batches[i].final}

\* C21: outside the critical section the pending buffer holds fewer than
\* BATCH_SIZE updates; a threshold flush hands the writer exactly BATCH_SIZE
\* updates, swapped out of the buffer in the critical section that filled
\* it; and a trigger causes one write at most: the threshold writes never
\* outnumber the full buffers the successful results so far can have filled.
C21_FlushThreshold ==
  /\ pc # "locked" => Len(pending_updates) < BATCH_SIZE
  /\ pc \in {"write", "upsert"} => /\ Len(batch_to_write) = BATCH_SIZE
                                   /\ pending_updates = <<>>
  /\ pc \notin {"write", "upsert"} => batch_to_write = <<>>
  /\ \A i \in ThresholdBatches : batches[i].rows = BATCH_SIZE
  /\ Cardinality(ThresholdBatches) * BATCH_SIZE <= progress.success
  /\ pc \in {"write", "upsert"} =>
       (Cardinality(ThresholdBatches) + 1) * BATCH_SIZE <= progress.success

\* the job ended after one threshold flush of 300 updates and a final flush
\* of the one update that came after it
C21_Witness ==
  /\ pc = "done"
  /\ progress.success = BATCH_SIZE + 1
  /\ Len(batches) = 2
  /\ ThresholdBatches = {1}
  /\ batches[1].rows = BATCH_SIZE
  /\ batches[2].final
  /\ batches[2].rows = 1

\* C22: the batches handed to the writer within one job, by threshold
\* flushes and by the final flush, are pairwise disjoint, whether or not the
\* writes succeeded; and what is handed over no longer is in the buffer.
C22_BatchesDisjoint ==
  /\ \A i, j \in 1..Len(batches) :
        i # j => batches[i].skus \cap batches[j].skus = {}
  /\ SkusOf(pending_updates) \cap SkusOf(batch_to_write) = {}
  /\ pc # "done" => 
       (SkusOf(pending_updates) \cup SkusOf(batch_to_write)) \cap Handed = {}

\* a threshold batch whose write failed and a final batch were handed over,
\* with no update in both
C22_Witness ==
  /\ pc = "final"
  /\ Len(batches) = 2
  /\ ~batches[1].final /\ ~batches[1].ok
  /\ batches[2].final /\ batches[2].ok
  /\ batches[2].skus = {"B"}
  /\ "B" \notin batches[1].skus
  /\ pending_updates = <<>>

\* the positions of the listing whose item has no SKU
NoSku == {i \in DOMAIN woo_products : Get(woo_products[i], "sku", "") = ""}

\* C23: an item with an empty SKU is skipped and is no failure: its task
\* returns None without running the extraction or a variant fetch, it is
\* not counted, it adds nothing to the failed-SKU list and no update of it
\* is pending or handed to the writer.
C23_EmptySkuSkipped ==
  /\ \A i \in NoSku :
        /\ i \notin inflight \cup requests \cup produced
        /\ \A f \in Elems(ready) : f.task = i => f.result = NoneResult
  /\ "" \notin Elems(failed_skus)
  /\ "" \notin SkusOf(pending_updates \o batch_to_write) \cup Handed
  /\ pc = "locked" => result.sku # ""
  /\ progress.failed = Len(failed_skus)
  /\ progress.completed <= Cardinality(DOMAIN woo_products \ NoSku)

\* a listing of an item without SKU and an item with a malformed price was
\* processed to the end: one item counted, as failed, the other not at all
C23_Witness ==
  /\ pc = "done"
  /\ ending = "processed"
  /\ total = 2
  /\ Cardinality(NoSku) = 1
  /\ NeedsVariations(woo_products[CHOOSE i \in NoSku : TRUE])
  /\ progress.completed = 1
  /\ progress.failed = 1
  /\ failed_skus = <<"C">>
  /\ requests = {}
  /\ batches = <<>>

\* the update carries an empty variation list and the count 0 for the site
NoVariations(u) ==
  /\ u["variations"][site] = <<>>
  /\ u["variation_counts"][site] = 0

\* C24: a failed variations request does not fail the parent item: the
\* result of its task is a success whose update carries an empty variation
\* list and the count 0 for the site, the consumer counts it as a success
\* (the SKU never joins the failed list, and every counted result is a
\* success or has its SKU there), and that update is what is buffered and
\* written.
C24_VariantFailureKeepsParent ==
  /\ \A i \in fetchFailed :
        LET sku == woo_products[i]["sku"]
        IN /\ sku \notin Elems(failed_skus)
           /\ \A f \in Elems(ready) : f.task = i =>
                 /\ f.result.success
                 /\ NoVariations(f.result.data)
           /\ (pc = "locked" /\ result.sku = sku) =>
                 /\ result.success
                 /\ NoVariations(result.data)
           /\ \A u \in Elems(pending_updates) \cup Elems(batch_to_write) :
                 u["sku"] = sku => NoVariations(u)
           /\ sku \in Written => NoVariations(store[sku])
           /\ (pc = "done" /\ ending = "processed" /\ ~progress.cancelled)
                 => sku \in Written
  /\ progress.failed = Len(failed_skus)
  /\ progress.completed = progress.success + progress.failed

\* the variations request of B failed and the job completed with both
\* items successful, B written without variations
C24_Witness ==
  /\ pc = "done"
  /\ ending = "processed"
  /\ total = 2
  /\ fetchFailed # {}
  /\ \A i \in fetchFailed : woo_products[i]["sku"] = "B"
  /\ progress.success = 2
  /\ progress.failed = 0
  /\ "B" \in Written
  /\ NoVariations(store["B"])
  /\ Last(statusLog) = "completed"

\* the positions of the listing whose item has a SKU and a price that is
\* not a number
Malformed ==
  {i \in DOMAIN woo_products \ NoSku :
     \/ ~CanFloat(SalePriceSource(woo_products[i]))
     \/ ~CanFloat(RegularPriceSource(woo_products[i]))}
\* the job went through the whole listing and was not cancelled
RanToEnd == pc = "done" /\ ending = "processed" /\ ~progress.cancelled

\* C25: an exception in the extraction of an item makes the result of its
\* task {sku, success: false, error}; the item is counted in completed and
\* failed and listed among the failed SKUs, no update of it is buffered or
\* handed to the writer, no variant fetch is made for it, and the other
\* items are processed all the same: a job that ran to its end counted
\* every item with a SKU and wrote every item that is not malformed.
C25_ExtractionFailureIsolated ==
  /\ \A f \in Elems(ready) :
        (f.task \in Malformed /\ f.result # NoneResult) =>
          f.result = [sku |-> woo_products[f.task]["sku"], success |-> FALSE,
                      error |-> "ValueError"]
  /\ \A i \in Malformed :
        /\ woo_products[i]["sku"]
             \notin SkusOf(pending_updates \o batch_to_write) \cup Handed
        /\ i \notin requests
  /\ Elems(failed_skus) \subseteq {woo_products[i]["sku"] : i \in Malformed}
  /\ progress.failed = Len(failed_skus)
  /\ progress.success = progress.completed - progress.failed
  /\ RanToEnd =>
       /\ Elems(failed_skus) = {woo_products[i]["sku"] : i \in Malformed}
       /\ progress.completed = Cardinality(DOMAIN woo_products \ NoSku)
       /\ Written = {woo_products[i]["sku"] :
                       i \in DOMAIN woo_products \ (NoSku \cup Malformed)}

\* the malformed item came first: it failed, and the valid item after it
\* was processed and written
C25_Witness ==
  /\ RanToEnd
  /\ total = 2
  /\ Malformed = {1}
  /\ woo_products[2]["sku"] = "A"
  /\ failed_skus = <<"C">>
  /\ progress = [completed |-> 2, success |-> 1, failed |-> 1, cancelled |-> FALSE]
  /\ Written = {"A"}
  /\ "C" \notin DOMAIN store

\* C26 as stated: whether a progress write succeeds or fails makes no
\* difference to the job. The job reads the progress row back only through
\* check_if_cancelled, so this says that a 'running' write that succeeds
\* leaves the oracle answering what it answers when the write fails and the
\* row stays as it was.
C26_ProgressWriteFailureIsNeutral ==
  [][(statusLog' # statusLog /\ Last(statusLog') = "running")
       => check_if_cancelled(row', TRUE) = check_if_cancelled(row, TRUE)]_vars

\* C27: the writer treats a per-site column of the existing row that is
\* absent, null or no map as an empty map: after the write the column holds
\* exactly the update's entries; and a SKU without a row is merged against
\* empty maps and gets its row from the same upsert.
C27_NonMapMergesAsEmpty ==
  [][(pc = "final_upsert" /\ store' # store) =>
       \A u \in Elems(pending_updates) :
         LET sku == u["sku"]
             existing == Get(store, sku, <<>>)
         IN /\ sku \in DOMAIN store'
            /\ \A f \in PerSiteFields :
                  (f \notin DOMAIN existing \/ ~IsDict(existing[f]))
                    => store'[sku][f] = u[f]]_vars

\* the row of B, whose per-site columns were null, absent or a string, was
\* written by the first call: each column holds the one entry of the update
C27_Witness ==
  /\ run = 1
  /\ pc = "final"
  /\ "Z" \in DOMAIN store
  /\ "B" \in Written
  /\ store["B"]["prices"] = (site :> 1250)
  /\ store["B"]["regular_prices"] = (site :> 1250)
  /\ store["B"]["stock_quantities"] = (site :> DEFAULT_STOCK)
  /\ store["B"]["variation_counts"] = (site :> 2)
  /\ store["B"]["name"] = IF site = PRIMARY THEN "Away Shirt" ELSE "Old name"

\* C28 as stated: once a sync of the primary site has written a SKU, the
\* stored name, images, categories and attributes are the values derived
\* from the upstream item in that sync, whatever the row held before, also
\* when no attribute of the item is in the synonym table (the derived map
\* is then empty; a row without the column counts as holding the empty map).
C28_CanonicalFieldsFollowUpstream ==
  site = PRIMARY =>
    \A i \in DOMAIN woo_products :
      LET woo_product == woo_products[i]
          sku == Get(woo_product, "sku", "")
      IN sku \in Written =>
           /\ store[sku]["name"] = Get(woo_product, "name", "")
           /\ store[sku]["images"] = Images(Get(woo_product, "images", <<>>))
           /\ store[sku]["categories"]
                = Categories(Get(woo_product, "categories", <<>>))
           /\ Get(store[sku], "attributes", <<>>)
                = RemapAttributes(Get(woo_product, "attributes", <<>>), <<>>)

RECURSIVE SumSeq(_)
SumSeq(q) == IF q = <<>> THEN 0 ELSE Head(q) + SumSeq(Tail(q))

\* C30: the backoff of one _request_with_retry call is linear in the
\* attempt index: the wait after failed attempt a (counted from 0) is
\* (a+1)*2 seconds, whether the attempt failed with a 503 or with a
\* transport error; there is one wait per failed attempt that is followed
\* by another attempt and none after the last one; and the waits of a call
\* add up to 6 seconds at most.
C30_LinearBackoff ==
  /\ \A k \in 1..Len(waits) :
        /\ waits[k] = ((k - 1) + 1) * 2
        /\ k - 1 < 2
        /\ responses[k] # "200"
  /\ Len(waits) = (IF cpc = "attempt" THEN Len(responses)
                   ELSE IF responses = <<>> THEN 0 ELSE Len(responses) - 1)
  /\ cpc = "raised" => Len(waits) = 2
  /\ SumSeq(waits) <= 6

\* a 503, then a transport error, then a page: the call slept 2 and then 4
\* seconds
C30_Witness ==
  /\ cpc = "got"
  /\ responses = <<"503", "transport", "200">>
  /\ waits = <<2, 4>>

\* the names the synonym table maps to each canonical key
Synonyms ==
  [gender |-> {"genderage", "gender"}, season |-> {"season"},
   type |-> {"jerseytype", "type"}, version |-> {"style", "version"},
   sleeve |-> {"sleevelength", "sleeve"}, team |-> {"team"},
   events |-> {"event", "events"}]
\* the attributes passed so far whose normalised name maps to key k
KeyedAt(k) ==
  {i \in 1..(apos - 1) :
     Normalise(Get(upstreamAttrs[i], "name", "")) \in Synonyms[k]}
Newest(S) == CHOOSE i \in S : \A j \in S : j <= i

\* C29: the remapping of the attributes of a primary-site item: a name,
\* lower-cased and with its spaces removed, is looked up in the synonym
\* table; the map has a key exactly when a name maps to it; a single-value
\* key holds the first option of the attribute (the last such attribute
\* when several map to the key; the empty string when it has no options),
\* events holds the whole option list, and a name that is not in the table
\* adds no key. An empty map is not submitted.
C29_AttributeRemapping ==
  rpc # "idle" =>
    /\ DOMAIN remapped = {k \in DOMAIN Synonyms : KeyedAt(k) # {}}
    /\ \A k \in DOMAIN remapped :
          LET options == Get(upstreamAttrs[Newest(KeyedAt(k))], "options", <<>>)
          IN IF k = "events" THEN remapped[k] = options
             ELSE remapped[k] = (IF options = <<>> THEN "" ELSE options[1])
    /\ rpc = "submitted" => DOMAIN remapped # {}
    /\ rpc = "omitted" => DOMAIN remapped = {}

\* 'Gender Age' with two options and 'Event' with two options: gender got
\* the first option and events the whole list
C29_Witness ==
  /\ rpc = "submitted"
  /\ upstreamAttrs = <<[name |-> "Gender Age", options |-> <<"Men", "Kids">>],
                       [name |-> "Event", options |-> <<"Men", "Kids">>]>>
  /\ remapped = [gender |-> "Men", events |-> <<"Men", "Kids">>]

\* C31 as stated: a 'cancelled' the user wrote to the status row while the
\* job was processing items, and that the job has not observed yet, is not
\* replaced by a write of the job (so that a later poll observes it and the
\* job ends with 'cancelled' as its terminal status).
C31_UserCancelNeverLost ==
  [][(cancelInTime /\ row.status = "cancelled" /\ ~progress.cancelled)
       => row'.status = "cancelled"]_vars

\* C32 as stated: when two jobs for different sites have both flushed a
\* batch, whatever the order of their bulk reads and bulk upserts, the row
\* of a SKU that is in both batches holds, in every per-site map, the entry
\* of each of the two updates.
C32_ConcurrentFlushesKeepBothSites ==
  (\A w \in DOMAIN wpc : wpc[w] = "done") =>
    \A w \in DOMAIN wpc : \A u \in Elems(wupdates[w]) :
      (\A v \in DOMAIN wpc : u["sku"] \in {x["sku"] : x \in Elems(wupdates[v])}) =>
        \A f \in PerSiteFields :
          /\ wsite[w] \in DOMAIN store[u["sku"]][f]
          /\ store[u["sku"]][f][wsite[w]] = u[f][wsite[w]]

\* C33: in every state of a site job, and in the status row as the job
\* writes it, completed = success + failed and completed <= total; and the
\* completed count, in the job and in the row, never decreases.
C33_CountersConsistent ==
  /\ [](/\ progress.completed = progress.success + progress.failed
        /\ progress.completed <= total
        /\ row.current = row.success + row.failed
        /\ row.current <= row.total
        /\ row.current <= progress.completed)
  /\ [][/\ progress'.completed >= progress.completed
        /\ row'.current >= row.current]_vars

\* the row after the terminal write of a job with one success and one
\* failure
C33_Witness ==
  /\ pc = "done"
  /\ row = update_progress(site, 2, 2, 1, 1, "completed")
  /\ Len(statusLog) >= 4

\* the number of updates handed to the writer, over all batches
BatchedCount ==
  SumSeq([i \in 1..Len(batches) |-> batches[i].rows])
\* the job went through its items and its terminal status is 'completed'
EndedCompleted ==
  pc = "done" /\ ending = "processed" /\ Last(statusLog) = "completed"

\* C34: when a job ends 'completed', the pending buffer is empty and every
\* successful update was handed to the writer in exactly one batch: the
\* batches are disjoint and the number of updates in them is the success
\* counter.
C34_CompletedMeansAllHandedOnce ==
  EndedCompleted =>
    /\ pending_updates = <<>>
    /\ batch_to_write = <<>>
    /\ BatchedCount = progress.success
    /\ Cardinality(Handed) = progress.success

\* 301 successes: 300 went to the writer in the threshold batch and one in
\* the final batch
C34_Witness ==
  /\ EndedCompleted
  /\ progress.success = BATCH_SIZE + 1
  /\ Len(batches) = 2
  /\ batches[1].ok /\ batches[2].ok
  /\ BatchedCount = BATCH_SIZE + 1
  /\ Cardinality(DOMAIN store) = BATCH_SIZE + 1

\* C35 as stated: when a job ends with the terminal status 'completed', the
\* completed count of its final status record equals total, whatever the
\* listing, items without SKU included.
C35_CompletedCountsEveryItem ==
  (pc = "done" /\ Last(statusLog) = "completed")
    => progress.completed = total

\* C36 as stated: in a full_sync_all invocation, once the job of a site has
\* ended cancelled, the job of a later site dispatches no task and hands no
\* batch to the writer.
C36_NothingAfterCancelledSite ==
  (/\ \E s \in DOMAIN results : Get(results[s], "cancelled", FALSE)
   /\ site \notin DOMAIN results)
    => /\ next = 1
       /\ inflight = {}
       /\ batches = <<>>

\* C37 as stated: the update of an item carries the stock quantity the shop
\* gave for it, the value 0 included; it carries the default 100 only when
\* the item has no stock quantity.
C37_StockQuantityPassedThrough ==
  \A f \in Elems(ready) :
    LET item == woo_products[f.task]
    IN (f.result # NoneResult /\ f.result.success) =>
         f.result.data["stock_quantities"][site]
           = (IF "stock_quantity" \in DOMAIN item THEN item["stock_quantity"]
              ELSE DEFAULT_STOCK)

\* C38 as stated: every per-site map of an update, woo_ids included, is in
\* the row the writer upserts: after a job wrote a SKU, the row has
\* woo_ids[site], the identifier the item has in the shop of the site.
C38_WooIdsStored ==
  \A i \in DOMAIN woo_products :
    LET sku == Get(woo_products[i], "sku", "")
    IN sku \in Written =>
         /\ "woo_ids" \in DOMAIN store[sku]
         /\ site \in DOMAIN store[sku]["woo_ids"]
         /\ store[sku]["woo_ids"][site] = woo_products[i]["id"]

\* C39: full_sync_site terminates, whatever the listing and the size of the
\* pool: the job is never stuck, on the progress lock or elsewhere; and once
\* the cancellation is observed, every queued task is run off, the terminal
\* status 'cancelled' is written and the function returns.
C39_Terminates ==
  /\ <>(pc = "done")
  /\ progress.cancelled ~>
       (/\ pc = "done"
        /\ Returned(ret)
        /\ next > total
        /\ inflight = {}
        /\ Last(statusLog) = "cancelled")

\* a pool of several workers: the cancellation was observed at the poll of
\* the 50th completion while two tasks ran, a task still queued then
\* returned None, and the job returned
C39_Witness ==
  /\ pc = "done"
  /\ max_workers > 1
  /\ total = POLL_EVERY + 4
  /\ progress.cancelled
  /\ progress.completed = POLL_EVERY
  /\ Cardinality(flagInflight) > 1
  /\ lateStarts # {}
  /\ next > total
  /\ Returned(ret)
  /\ Last(statusLog) = "cancelled"

====
